---- MODULE Spec2Model ----
(***************************************************************************)
(* A model of the marker rollup of mgijax/rollupload                       *)
(* (bin/rollupmarkerlib.py and its driver bin/rollupload.py).              *)
(*                                                                         *)
(* The relational store is the record db (one field per table, each a set  *)
(* of rows); the temp tables the rule cascade builds are the fields of     *)
(* temp.  Each function that _initialize calls is one step of the          *)
(* sequential program, selected by pc.                                     *)
(*                                                                         *)
(* Modelling conventions:                                                  *)
(*  - Python None / SQL NULL of a text value is the string "None"; of an   *)
(*    integer index it is the empty tuple (a present index i is <<i>>);    *)
(*    a NULL marker key is NullMarker.                                     *)
(*  - symbol, gaccid and maccid columns are left out of the temp tables:   *)
(*    every genotype has exactly one MGI accession ID and a marker has at  *)
(*    most one preferred MGI ID, so they are functions of the keys; the    *)
(*    joins with ACC_Accession that filter rows are kept.                  *)
(*  - a table filled by "select distinct" is a set; genotype_keepers, fed  *)
(*    by plain "insert ... select", is a bag.                              *)
(*  - the order of rows a query leaves unordered is chosen                 *)
(*    nondeterministically wherever the program's result depends on it     *)
(*    (properties, notes); lists that are only iterated to emit rows are   *)
(*    sets or bags.                                                        *)
(***************************************************************************)
EXTENDS Integers, Sequences, FiniteSets, Bags, TLC

VARIABLES
    db,                     \* the fact snapshot (the relational store)
    ANNOTPROPERTY,          \* os.environ['ANNOTPROPERTY']
    MAX_ANNOTATIONS,
    CURRENT_ANNOT_TYPE,
    SOURCE_ANNOT_KEY,
    INITIALIZED,
    ANNOTATION_COUNTS,
    MARKER_KEYS,
    LAST_MARKER_KEY_INDEX,
    MARKERS_TO_DO,
    TERM_MAP, MARKER_MAP, JNUM_MAP, EVIDENCE_MAP, QUALIFIER_MAP, USER_MAP,
    PROPERTY_MAP,
    temp,                   \* the temp tables of the session
    pc,                     \* position in getNextMarker / _initialize
    batch,                  \* (startMarker, endMarker) of the last fetch
    marker,                 \* the driver's variable marker
    returned,               \* keys of the Marker objects returned so far
    derived,                \* rows returned by Marker.getAnnotations so far
    raised,                 \* the exception the last call ended with
    run,                    \* number of the process run over this snapshot
    previous                \* what the previous process run produced

engine == <<MAX_ANNOTATIONS, CURRENT_ANNOT_TYPE, SOURCE_ANNOT_KEY, INITIALIZED>>
cursor == <<ANNOTATION_COUNTS, MARKER_KEYS, LAST_MARKER_KEY_INDEX>>
keyMaps == <<TERM_MAP, MARKER_MAP, JNUM_MAP, EVIDENCE_MAP, QUALIFIER_MAP,
             USER_MAP, PROPERTY_MAP>>
driver == <<marker, returned, derived>>
vars == <<db, ANNOTPROPERTY, engine, cursor, MARKERS_TO_DO, keyMaps, temp, pc,
          batch, driver, raised, run, previous>>

(***************************************************************************)
(* Program constants                                                       *)
(***************************************************************************)
DO_GENOTYPE == 1020
MP_GENOTYPE == 1002
NO_PHENOTYPIC_ANALYSIS == 293594
SOURCE_ANNOT_KEY_DO == 13611348
SOURCE_ANNOT_KEY_MP == 13576001
GT_ROSA == 37270
HPRT == 9936
COL1A1 == 1092
DOCKING_SITES == {GT_ROSA, HPRT, COL1A1}

MUTATION_INVOLVES == 1003           \* mr._Category_key
EXPRESSES_COMPONENT == 1004         \* mr._Category_key
EXPRESSES_MOUSE_GENE == 12965808    \* mr._RelationshipTerm_key
ALLELE_SUBTYPE == 1014              \* annotation type allele/subtype
MARKER_FEATURE == 1011              \* annotation type marker/feature type
TRANSGENIC == 847126                \* _Allele_Type_key
REPORTER == 11025589
RECOMBINASE == 11025588
INSERTED_EXPRESSED_SEQUENCE == 11025597
TRANSACTIVATOR == 13289567
TRANSGENE == 12                     \* _Marker_Type_key
CYTOGENETIC == 3                    \* _Marker_Type_key
COMPLEX_CLUSTER_REGION == 10        \* _Marker_Type_key
HERITABLE_FEATURE_TYPES ==
    {6238170, 97015607, 103059157, 103059158, 103059155, 15406207}
GENERAL_NOTE == 1008
BACKGROUND_SENSITIVITY_NOTE == 1015
MGITYPE_MARKER == 2
MGITYPE_ALLELE == 11
MGITYPE_GENOTYPE == 12
MGITYPE_TERM == 13

None == "None"
NoneInt == << >>
NullMarker == 0

(***************************************************************************)
(* Bounds of the checked instances                                         *)
(***************************************************************************)
MaxLinks == 2       \* alleles of the genotype whose alleles vary
MaxAnnots == 2      \* annotations of a genotype
MaxCeiling == 4     \* values tried for MAX_ANNOTATIONS
MaxRuns == 2        \* process runs over one snapshot
MaxProps == 3       \* property rows of an evidence record
MaxNotes == 2       \* note rows of an evidence record
MaxReads == 2       \* getAnnotations calls on one Marker

RULE1 == "rule #1 : one marker genotype"
RULE2 == "rule #2 : transgene, 1 EC, 0 MI"
RULE3A == "rule #3 : non-transgene clause"
RULE3B == "rule #3 : transgene clause"
RULE3C == "rule #3 : docking site clause"
RULE4 == "rule #4 : transgene"
RULE5 == "rule #5 : transgene, 1 EC"
RULE6 == "rule #6 : docking site, 1 EC"
RULE9 == "rule #9 : docking site, 0 EC"
RULE7 == "rule #7 : singles, no EC"
RULE8 == "rule #8 : self-expressing single"

(***************************************************************************)
(* Relational helpers                                                      *)
(***************************************************************************)
\* select _Genotype_key, count(1) as pair_count ... group by _Genotype_key
PairCounts(rows) ==
    { [_Genotype_key |-> g,
       pair_count |-> Cardinality({r \in rows : r._Genotype_key = g})] :
      g \in {r._Genotype_key : r \in rows} }

\* select _Genotype_key, count(1) as marker_count ... group by _Genotype_key
MarkerCounts(rows) ==
    { [_Genotype_key |-> g,
       marker_count |-> Cardinality({r \in rows : r._Genotype_key = g})] :
      g \in {r._Genotype_key : r \in rows} }

\* a bag holding each row of a set once (insert ... select distinct)
RowsOnce(rows) == SetToBag(rows)

\* the bag of f(r) over the rows r of a set (insert ... select, no distinct)
BagOfRows(rows, f(_)) ==
    [x \in {f(r) : r \in rows} |-> Cardinality({r \in rows : f(r) = x})]

\* delete from a bag the rows satisfying a condition
DeleteFromBag(b, Dead(_)) ==
    [r \in {x \in BagToSet(b) : ~Dead(x)} |-> b[r]]

\* the qualifying annotations: current annotation type, not the sentinel term
QualifyingAnnots ==
    {a \in db.VOC_Annot : /\ <<a._AnnotType_key>> = CURRENT_ANNOT_TYPE
                          /\ a._Term_key # NO_PHENOTYPIC_ANALYSIS}

HasAccession(key, mgiType) ==
    \E aa \in db.ACC_Accession :
        aa._Object_key = key /\ aa._MGIType_key = mgiType

HasSubtype(alleleKey, termKey) ==
    \E v \in db.VOC_Annot : /\ v._AnnotType_key = ALLELE_SUBTYPE
                            /\ v._Object_key = alleleKey
                            /\ v._Term_key = termKey

MarkerRow(markerKey) ==
    {m \in db.MRK_Marker : m._Marker_key = markerKey}

MarkerType(markerKey) ==
    {m._Marker_Type_key : m \in MarkerRow(markerKey)}

Keeper(g, rule, m) ==
    [_Genotype_key |-> g, genotype_type |-> rule, _Marker_key |-> m]

\* the state of the session's temp tables before _initialize has run
NoTempTables ==
    [has_expresses_component |-> {}, has_mutation_involves |-> {},
     genotype_pair_counts |-> {}, genotype_keepers |-> EmptyBag,
     reporter_transgenes |-> {}, transactivators |-> {}, scratchpad |-> {},
     wildtype_alleles |-> {}, trad |-> {}, trad_ct |-> {}, mi |-> {},
     mi_ct |-> {}, ec |-> {}, ec_ct |-> {}, mi1 |-> {}, mi2 |-> {},
     mi3 |-> {}]

\* one function called by _initialize: from position here to position next
Step(here, next, newTemp) ==
    /\ pc = here
    /\ temp' = newTemp
    /\ pc' = next
    /\ UNCHANGED <<db, ANNOTPROPERTY, engine, cursor, MARKERS_TO_DO, keyMaps,
                   batch, driver, raised, run, previous>>

(***************************************************************************)
(* The rule cascade of _initialize                                         *)
(***************************************************************************)
has_expresses_component_rows ==
    { [_Genotype_key |-> gag._Genotype_key, _Allele_key |-> gag._Allele_key] :
      gag \in { x \in db.GXD_AlleleGenotype :
                 /\ \E a \in QualifyingAnnots :
                        a._Object_key = x._Genotype_key
                 /\ \E mr \in db.MGI_Relationship :
                        /\ mr._Category_key = EXPRESSES_COMPONENT
                        /\ mr._Object_key_1 = x._Allele_key
                 /\ HasAccession(x._Genotype_key, MGITYPE_GENOTYPE) } }

_identifyExpressesComponent ==
    Step("_identifyExpressesComponent", "_identifyMutationInvolves",
         [temp EXCEPT !.has_expresses_component =
                          has_expresses_component_rows])

has_mutation_involves_rows ==
    { [_Genotype_key |-> p[1]._Genotype_key, _Allele_key |-> p[1]._Allele_key,
       _Marker_key |-> p[2]._Object_key_2] :
      p \in { x \in db.GXD_AlleleGenotype \X db.MGI_Relationship :
               /\ \E a \in QualifyingAnnots :
                      a._Object_key = x[1]._Genotype_key
               /\ x[2]._Category_key = MUTATION_INVOLVES
               /\ x[2]._Object_key_1 = x[1]._Allele_key
               /\ HasAccession(x[1]._Genotype_key, MGITYPE_GENOTYPE)
               /\ MarkerRow(x[2]._Object_key_2) # {} } }

_identifyMutationInvolves ==
    Step("_identifyMutationInvolves", "_countAllelePairsPerGenotype",
         [temp EXCEPT !.has_mutation_involves = has_mutation_involves_rows])

\* _countAllelePairsPerGenotype('GXD_AllelePair')
_countAllelePairsPerGenotype ==
    Step("_countAllelePairsPerGenotype", "_keepNaturallySimpleGenotypes",
         [temp EXCEPT !.genotype_pair_counts =
             PairCounts({gag \in db.GXD_AlleleGenotype :
                            \E v \in QualifyingAnnots :
                                v._Object_key = gag._Genotype_key})])

\* _deleteScratchpad: re-create genotype_pair_counts from scratchpad
_deleteScratchpad(t) ==
    [t EXCEPT !.genotype_pair_counts = PairCounts(t.scratchpad)]

\* faulty variant of NaturallySimpleRows: rule #1 selects nothing
NaturallySimpleRowsNone(t) == {}

\* the rows rule #1 selects (select distinct)
NaturallySimpleRows(t) ==
    { Keeper(p._Genotype_key, RULE1, p._Marker_key) :
      p \in { x \in db.GXD_AlleleGenotype :
          /\ \E g \in t.genotype_pair_counts :
                /\ g.pair_count = 1
                /\ g._Genotype_key = x._Genotype_key
          /\ \E gg \in db.GXD_Genotype :
                /\ gg._Genotype_key = x._Genotype_key
                /\ gg.isConditional = 0
          /\ MarkerRow(x._Marker_key) # {}
          /\ HasAccession(x._Genotype_key, MGITYPE_GENOTYPE)
          /\ HasAccession(x._Marker_key, MGITYPE_MARKER)
          /\ ~ \E hmi \in t.has_mutation_involves :
                  hmi._Genotype_key = x._Genotype_key
          /\ ~ HasSubtype(x._Allele_key, INSERTED_EXPRESSED_SEQUENCE)
          /\ \E gag \in db.GXD_AlleleGenotype, a \in db.ALL_Allele :
                /\ gag._Genotype_key = x._Genotype_key
                /\ gag._Allele_key = a._Allele_key
                /\ a.isWildType = 0 } }

\* _buildKeepersTable, _keepNaturallySimpleGenotypes, _indexKeepersTable
_keepNaturallySimpleGenotypes ==
    Step("_keepNaturallySimpleGenotypes", "_buildScratchPad",
         [temp EXCEPT !.genotype_keepers =
                          EmptyBag (+) RowsOnce(NaturallySimpleRows(temp))])

ScratchRow(gag, g) ==
    [_Genotype_key |-> gag._Genotype_key, _Marker_key |-> gag._Marker_key,
     _Allele_key |-> gag._Allele_key, isConditional |-> g.isConditional]

\* faulty variant of NotYetKept: kept genotypes enter scratchpad as well
NotYetKeptIgnored(t, genotypeKey) == TRUE

\* "not exists (select 1 from genotype_keepers k where ...)"
NotYetKept(t, genotypeKey) ==
    ~ \E k \in BagToSet(t.genotype_keepers) : k._Genotype_key = genotypeKey

\* the rows _buildScratchPad selects into scratchpad (select distinct)
ScratchPadRows(t) ==
    { ScratchRow(p[1], p[2]) :
      p \in { x \in db.GXD_AlleleGenotype \X db.GXD_Genotype :
          /\ \E c \in t.genotype_pair_counts :
                c._Genotype_key = x[1]._Genotype_key
          /\ NotYetKept(t, x[1]._Genotype_key)
          /\ x[2]._Genotype_key = x[1]._Genotype_key
          /\ MarkerRow(x[1]._Marker_key) # {}
          /\ HasAccession(x[1]._Genotype_key, MGITYPE_GENOTYPE)
          /\ HasAccession(x[1]._Marker_key, MGITYPE_MARKER) } }

_buildScratchPad ==
    Step("_buildScratchPad", "_identifyReporterTransgenes",
         _deleteScratchpad([temp EXCEPT !.scratchpad = ScratchPadRows(temp)]))

\* alleles that are transgenic, Reporter and carry no other subtype
reporter_transgenes_rows ==
    { a._Allele_key :
      a \in { x \in db.ALL_Allele :
          /\ x._Allele_Type_key = TRANSGENIC
          /\ HasSubtype(x._Allele_key, REPORTER)
          /\ ~ \E v \in db.VOC_Annot :
                  /\ v._Object_key = x._Allele_key
                  /\ v._AnnotType_key = ALLELE_SUBTYPE
                  /\ v._Term_key # REPORTER } }

_identifyReporterTransgenes ==
    Step("_identifyReporterTransgenes", "_removeConditionalGenotypes",
         [temp EXCEPT !.reporter_transgenes = reporter_transgenes_rows])

\* delete recombinase alleles of conditional genotypes from scratchpad
_removeConditionalGenotypes ==
    Step("_removeConditionalGenotypes", "_removeReporterTransgenes",
         _deleteScratchpad([temp EXCEPT !.scratchpad =
             { p \in @ : ~ ( /\ p.isConditional = 1
                             /\ HasSubtype(p._Allele_key, RECOMBINASE)
                             /\ ~ HasSubtype(p._Allele_key,
                                             INSERTED_EXPRESSED_SEQUENCE) ) }]))

_removeReporterTransgenes ==
    Step("_removeReporterTransgenes", "_identifyTransactivators",
         _deleteScratchpad([temp EXCEPT !.scratchpad =
             { p \in @ : p._Allele_key \notin temp.reporter_transgenes }]))

\* alleles that are transgenic, Transactivator and not inserted expressed
\* sequence; the query's "from all_allele a, voc_annot t" has no row when
\* VOC_Annot is empty
transactivators_rows ==
    { a._Allele_key :
      a \in { x \in db.ALL_Allele :
          /\ db.VOC_Annot # {}
          /\ x._Allele_Type_key = TRANSGENIC
          /\ HasSubtype(x._Allele_key, TRANSACTIVATOR)
          /\ ~ HasSubtype(x._Allele_key, INSERTED_EXPRESSED_SEQUENCE) } }

_identifyTransactivators ==
    Step("_identifyTransactivators", "_removeTransactivators",
         [temp EXCEPT !.transactivators = transactivators_rows])

_removeTransactivators ==
    Step("_removeTransactivators", "_identifyWildTypeAlleles",
         _deleteScratchpad([temp EXCEPT !.scratchpad =
             { p \in @ : p._Allele_key \notin temp.transactivators }]))

_identifyWildTypeAlleles ==
    Step("_identifyWildTypeAlleles", "_removeWildTypeAllelesFromScratchPad",
         [temp EXCEPT !.wildtype_alleles =
             { p._Allele_key :
               p \in { x \in temp.scratchpad :
                         \E a \in db.ALL_Allele :
                             /\ x._Allele_key = a._Allele_key
                             /\ a.isWildType = 1 } }])

_removeWildTypeAllelesFromScratchPad ==
    Step("_removeWildTypeAllelesFromScratchPad", "_collectMarkerSets",
         _deleteScratchpad([temp EXCEPT !.scratchpad =
             { p \in @ : p._Allele_key \notin temp.wildtype_alleles }]))

\* genotype-to-marker via the traditional allele-marker route
trad_rows(t) ==
    { [_Genotype_key |-> s._Genotype_key, _Marker_key |-> s._Marker_key] :
      s \in { x \in t.scratchpad :
                \E a \in db.ALL_Allele : x._Allele_key = a._Allele_key } }

\* genotype-to-marker via the mutation involves route
mi_rows(t) ==
    { [_Genotype_key |-> p[1]._Genotype_key,
       _Marker_key |-> p[2]._Object_key_2] :
      p \in { x \in t.scratchpad \X db.MGI_Relationship :
                /\ x[1]._Allele_key = x[2]._Object_key_1
                /\ x[2]._Category_key = MUTATION_INVOLVES } }

\* genotype-to-marker via the expresses component route
ec_rows(t) ==
    { [_Genotype_key |-> p[1]._Genotype_key,
       _Marker_key |-> p[2]._Object_key_2,
       _Organism_key |-> p[3]._Organism_key,
       _RelationshipTerm_key |-> p[2]._RelationshipTerm_key] :
      p \in { x \in t.scratchpad \X db.MGI_Relationship \X db.MRK_Marker :
                /\ x[1]._Allele_key = x[2]._Object_key_1
                /\ x[2]._Category_key = EXPRESSES_COMPONENT
                /\ x[2]._Object_key_2 = x[3]._Marker_key } }

_collectMarkerSets ==
    Step("_collectMarkerSets", "_handleMultipleMarkers",
         [temp EXCEPT !.trad = trad_rows(temp),
                      !.trad_ct = MarkerCounts(trad_rows(temp)),
                      !.mi = mi_rows(temp),
                      !.mi_ct = MarkerCounts(mi_rows(temp)),
                      !.ec = ec_rows(temp),
                      !.ec_ct = MarkerCounts(ec_rows(temp))])

\* faulty variant of HasCount: the marker_count is this number or more
HasCountAtLeast(ct, g, n) ==
    \E c \in ct : c._Genotype_key = g /\ c.marker_count >= n

\* the genotype's row of a count table has this marker_count
HasCount(ct, g, n) ==
    \E c \in ct : c._Genotype_key = g /\ c.marker_count = n

\* the (genotype, transgene marker, other marker) triples rule #2 accepts
TwoMarkerTransgene(t) ==
    { x \in t.scratchpad \X t.trad \X t.trad :
        /\ HasAccession(x[1]._Genotype_key, MGITYPE_GENOTYPE)
        /\ ~ \E mc \in t.mi_ct : mc._Genotype_key = x[1]._Genotype_key
        /\ HasCount(t.trad_ct, x[1]._Genotype_key, 2)
        /\ x[2]._Genotype_key = x[1]._Genotype_key
        /\ \E mt \in MarkerRow(x[2]._Marker_key) :
              mt._Marker_Type_key = TRANSGENE
        /\ x[3]._Genotype_key = x[1]._Genotype_key
        /\ \E nt \in MarkerRow(x[3]._Marker_key) :
              nt._Marker_Type_key # TRANSGENE
        /\ \E r1 \in db.MGI_Relationship, a \in db.ALL_Allele :
              /\ r1._Category_key = EXPRESSES_COMPONENT
              /\ a._Marker_key = x[2]._Marker_key
              /\ a._Allele_key = r1._Object_key_1
              /\ r1._RelationshipTerm_key = EXPRESSES_MOUSE_GENE
              /\ r1._Object_key_2 = x[3]._Marker_key
        /\ ~ \E r2 \in db.MGI_Relationship, a2 \in db.ALL_Allele :
              /\ r2._Category_key = EXPRESSES_COMPONENT
              /\ a2._Marker_key = x[2]._Marker_key
              /\ a2._Allele_key = r2._Object_key_1
              /\ r2._Object_key_2 # x[3]._Marker_key }

\* rule #2: insert the transgene marker, then the other marker, of each
\* accepted genotype; delete the multi-marker genotypes from scratchpad
\* (genotype_pair_counts is not re-created here)
_handleMultipleMarkers ==
    Step("_handleMultipleMarkers", "_handleMutationInvolves",
         [temp EXCEPT
            !.genotype_keepers =
                (@ (+) RowsOnce(
                    { Keeper(x[1]._Genotype_key, RULE2, x[2]._Marker_key) :
                      x \in { y \in TwoMarkerTransgene(temp) :
                          HasAccession(y[2]._Marker_key, MGITYPE_MARKER) } }))
                (+) RowsOnce(
                    { Keeper(x[1]._Genotype_key, RULE2, x[3]._Marker_key) :
                      x \in { y \in TwoMarkerTransgene(temp) :
                          HasAccession(y[3]._Marker_key, MGITYPE_MARKER) } }),
            !.scratchpad =
                { s \in @ : ~ \E c \in temp.trad_ct :
                                 /\ c._Genotype_key = s._Genotype_key
                                 /\ c.marker_count > 1 }])

\* the (scratchpad row, has_mutation_involves row) pairs the three clauses
\* of rule #3 start from
MutationInvolvesPairs(t) ==
    { x \in t.scratchpad \X t.has_mutation_involves :
        /\ \E c \in t.genotype_pair_counts :
              /\ c.pair_count = 1
              /\ c._Genotype_key = x[1]._Genotype_key
        /\ x[1]._Genotype_key = x[2]._Genotype_key
        /\ x[1]._Allele_key = x[2]._Allele_key }

GM(g, m) == [_Genotype_key |-> g, _Marker_key |-> m]

\* rule #3, non-transgene clause
mi1_rows(t) ==
    { GM(x[1]._Genotype_key, x[1]._Marker_key) :
      x \in { y \in MutationInvolvesPairs(t) :
          \/ \E v \in db.VOC_Annot :
                /\ v._Object_key = y[1]._Marker_key
                /\ v._AnnotType_key = MARKER_FEATURE
                /\ v._Term_key \in HERITABLE_FEATURE_TYPES
          \/ \E m \in MarkerRow(y[1]._Marker_key) :
                m._Marker_Type_key \in {CYTOGENETIC, COMPLEX_CLUSTER_REGION} } }

\* rule #3, transgene clause: the union of the scratchpad marker and the
\* mutation involves marker
mi2_rows(t) ==
    LET sel == { y \in MutationInvolvesPairs(t) :
                   /\ HasCount(t.mi_ct, y[1]._Genotype_key, 1)
                   /\ \E m \in MarkerRow(y[1]._Marker_key) :
                         m._Marker_Type_key \in {TRANSGENE} }
    IN  { GM(x[1]._Genotype_key, x[1]._Marker_key) : x \in sel }
        \cup { GM(x[1]._Genotype_key, x[2]._Marker_key) : x \in sel }

\* faulty variant of mi3_rows: the marker need not be a docking site
mi3_rowsOfAnyMarker(t) ==
    { GM(x[1]._Genotype_key, x[2]._Marker_key) :
      x \in { y \in MutationInvolvesPairs(t) :
                HasCount(t.mi_ct, y[1]._Genotype_key, 1) } }

\* rule #3, docking site clause (at most one row per genotype, as
\* pair_count = 1 and mi_ct.marker_count = 1)
mi3_rows(t) ==
    { GM(x[1]._Genotype_key, x[2]._Marker_key) :
      x \in { y \in MutationInvolvesPairs(t) :
          /\ HasCount(t.mi_ct, y[1]._Genotype_key, 1)
          /\ \E m \in MarkerRow(y[1]._Marker_key) :
                m._Marker_key \in DOCKING_SITES } }

\* insert into genotype_keepers ... from scratchpad s, mi1
FromMi1(t, m1) ==
    BagOfRows({ x \in t.scratchpad \X m1 :
                  x[1]._Genotype_key = x[2]._Genotype_key },
              LAMBDA x : Keeper(x[1]._Genotype_key, RULE3A, x[1]._Marker_key))

\* insert into genotype_keepers ... from scratchpad s, mi2 (or mi3)
FromMi23(t, m23, rule) ==
    BagOfRows({ x \in t.scratchpad \X m23 :
                  x[1]._Genotype_key = x[2]._Genotype_key },
              LAMBDA x : Keeper(x[1]._Genotype_key, rule, x[2]._Marker_key))

\* faulty variant of _handleMutationInvolves: only the genotypes a clause
\* claimed are deleted from scratchpad
_handleMutationInvolvesClaimedOnly ==
    Step("_handleMutationInvolves", "_handleTransgenes",
         _deleteScratchpad([temp EXCEPT
            !.mi1 = mi1_rows(temp),
            !.mi2 = mi2_rows(temp),
            !.mi3 = mi3_rows(temp),
            !.genotype_keepers =
                ((@ (+) FromMi1(temp, mi1_rows(temp)))
                    (+) FromMi23(temp, mi2_rows(temp), RULE3B))
                    (+) FromMi23(temp, mi3_rows(temp), RULE3C),
            !.scratchpad =
                { s \in @ :
                    s._Genotype_key \notin
                        { r._Genotype_key :
                          r \in mi1_rows(temp) \cup mi2_rows(temp)
                                \cup mi3_rows(temp) } }]))

_handleMutationInvolves ==
    Step("_handleMutationInvolves", "_handleTransgenes",
         _deleteScratchpad([temp EXCEPT
            !.mi1 = mi1_rows(temp),
            !.mi2 = mi2_rows(temp),
            !.mi3 = mi3_rows(temp),
            !.genotype_keepers =
                ((@ (+) FromMi1(temp, mi1_rows(temp)))
                    (+) FromMi23(temp, mi2_rows(temp), RULE3B))
                    (+) FromMi23(temp, mi3_rows(temp), RULE3C),
            !.scratchpad =
                { s \in @ :
                    s._Genotype_key \notin
                        { r._Genotype_key :
                          r \in temp.mi_ct \cup mi1_rows(temp)
                                \cup mi2_rows(temp) \cup mi3_rows(temp) } }]))

\* scratchpad rows whose marker is a transgene
TransgeneRows(t) ==
    { s \in t.scratchpad :
        \E m \in MarkerRow(s._Marker_key) : m._Marker_Type_key = TRANSGENE }

\* faulty variant of SingleMouseEC: any number of expressed markers
AnyMouseEC(t, rows) ==
    { x \in rows \X t.ec :
        /\ x[1]._Genotype_key = x[2]._Genotype_key
        /\ x[2]._RelationshipTerm_key = EXPRESSES_MOUSE_GENE }

\* (scratchpad row, ec row) pairs of genotypes with exactly one expressed
\* marker, expressed as a mouse gene
SingleMouseEC(t, rows) ==
    { x \in rows \X t.ec :
        /\ x[1]._Genotype_key = x[2]._Genotype_key
        /\ x[2]._RelationshipTerm_key = EXPRESSES_MOUSE_GENE
        /\ HasCount(t.ec_ct, x[1]._Genotype_key, 1) }

\* rules #4 and #5
_handleTransgenes ==
    Step("_handleTransgenes", "_handleDockingSites",
         _deleteScratchpad([temp EXCEPT
            !.genotype_keepers =
                (@ (+) BagOfRows(TransgeneRows(temp),
                        LAMBDA s : Keeper(s._Genotype_key, RULE4,
                                          s._Marker_key)))
                   (+) BagOfRows(SingleMouseEC(temp, TransgeneRows(temp)),
                        LAMBDA x : Keeper(x[1]._Genotype_key, RULE5,
                                          x[2]._Marker_key)),
            !.scratchpad =
                { s \in @ : s._Genotype_key \notin
                      { r._Genotype_key : r \in TransgeneRows(temp) } }]))

\* rules #6 and #9
_handleDockingSites ==
    Step("_handleDockingSites", "_handleOtherSingles",
         _deleteScratchpad([temp EXCEPT
            !.genotype_keepers =
                (@ (+) BagOfRows(
                        SingleMouseEC(temp,
                            { s \in temp.scratchpad :
                                s._Marker_key \in DOCKING_SITES }),
                        LAMBDA x : Keeper(x[1]._Genotype_key, RULE6,
                                          x[2]._Marker_key)))
                   (+) BagOfRows(
                        { s \in temp.scratchpad :
                            /\ s._Marker_key \in {HPRT, COL1A1}
                            /\ ~ HasSubtype(s._Allele_key,
                                            INSERTED_EXPRESSED_SEQUENCE) },
                        LAMBDA s : Keeper(s._Genotype_key, RULE9,
                                          s._Marker_key)),
            !.scratchpad =
                { s \in @ : s._Marker_key \notin DOCKING_SITES }]))

\* rules #7 and #8 (scratchpad is left as it is)
_handleOtherSingles ==
    Step("_handleOtherSingles", "_removeNullsAndGtRosa",
         [temp EXCEPT
            !.genotype_keepers =
                (@ (+) BagOfRows(
                        { s \in temp.scratchpad :
                            ~ \E ct \in temp.has_expresses_component :
                                  s._Genotype_key = ct._Genotype_key },
                        LAMBDA s : Keeper(s._Genotype_key, RULE7,
                                          s._Marker_key)))
                   (+) BagOfRows(
                        { x \in SingleMouseEC(temp, temp.scratchpad) :
                            x[1]._Marker_key = x[2]._Marker_key },
                        LAMBDA x : Keeper(x[1]._Genotype_key, RULE8,
                                          x[1]._Marker_key))])

\* faulty variant of NullOrGtRosa: the rows of every docking site are deleted
NullOrDockingSite(k) ==
    k._Marker_key \in DOCKING_SITES \/ k._Marker_key = NullMarker

\* faulty variant of NullOrGtRosa: nothing is deleted
NullOrGtRosaKept(k) == FALSE

\* the rows _removeNullsAndGtRosa deletes from genotype_keepers
NullOrGtRosa(k) == k._Marker_key = GT_ROSA \/ k._Marker_key = NullMarker

_removeNullsAndGtRosa ==
    Step("_removeNullsAndGtRosa", "_getMarkerMetaData",
         [temp EXCEPT !.genotype_keepers = DeleteFromBag(@, NullOrGtRosa)])

(***************************************************************************)
(* The cursor: annotation counts, ordered key list, batches                *)
(***************************************************************************)
\* count(1) of the join of genotype_keepers (a bag) with the qualifying
\* annotations, for one marker
annotation_count(t, m) ==
    Cardinality(
        { x \in BagToSet(t.genotype_keepers) \X QualifyingAnnots
                \X (1 .. BagCardinality(t.genotype_keepers)) :
            /\ x[1]._Marker_key = m
            /\ x[1]._Genotype_key = x[2]._Object_key
            /\ x[3] <= t.genotype_keepers[x[1]] })

\* faulty variant of SortKeys: descending order
RECURSIVE SortKeysDescending(_)
SortKeysDescending(S) ==
    IF S = {} THEN << >>
    ELSE LET most == CHOOSE x \in S : \A y \in S : y <= x
         IN  <<most>> \o SortKeysDescending(S \ {most})

\* list.sort() of a set of integer keys
RECURSIVE SortKeys(_)
SortKeys(S) ==
    IF S = {} THEN << >>
    ELSE LET least == CHOOSE x \in S : \A y \in S : x <= y
         IN  <<least>> \o SortKeys(S \ {least})

_getMarkerMetaData ==
    /\ pc = "_getMarkerMetaData"
    /\ LET keys == { k._Marker_key :
                     k \in { x \in BagToSet(temp.genotype_keepers) :
                               \E a \in QualifyingAnnots :
                                   x._Genotype_key = a._Object_key } }
       IN  /\ ANNOTATION_COUNTS' =
                 [m \in keys |-> annotation_count(temp, m)]
           /\ MARKER_KEYS' = SortKeys(keys)
    /\ LAST_MARKER_KEY_INDEX' = NoneInt
    /\ pc' = "_initializeKeyMaps"
    /\ UNCHANGED <<db, ANNOTPROPERTY, engine, MARKERS_TO_DO, keyMaps, temp,
                   batch, driver, raised, run, previous>>

\* class KeyMap: the mapping built from the rows of a query
KeyMap(rows, keyField, valueField) ==
    [k \in { r[keyField] : r \in rows } |->
        (CHOOSE r \in rows : r[keyField] = k)[valueField]]

\* KeyMap.get
get(mapping, key) ==
    IF key \in DOMAIN mapping THEN mapping[key] ELSE None

termCmd ==
    { [_Object_key |-> x[2]._Object_key, accID |-> x[2].accID] :
      x \in { y \in db.VOC_Annot \X db.ACC_Accession :
                /\ <<y[1]._AnnotType_key>> = CURRENT_ANNOT_TYPE
                /\ y[1]._Term_key = y[2]._Object_key
                /\ y[2]._MGIType_key = MGITYPE_TERM
                /\ \E vt \in db.VOC_Term : vt._Term_key = y[1]._Term_key } }

markerCmd ==
    { [_Object_key |-> x[2]._Object_key, accID |-> x[2].accID] :
      x \in { y \in BagToSet(temp.genotype_keepers) \X db.ACC_Accession :
                /\ y[1]._Marker_key = y[2]._Object_key
                /\ y[2]._MGIType_key = MGITYPE_MARKER
                /\ MarkerRow(y[1]._Marker_key) # {} } }

jnumCmd ==
    { r \in db.BIB_Citation_Cache :
        \E va \in db.VOC_Annot, ve \in db.VOC_Evidence :
            /\ <<va._AnnotType_key>> = CURRENT_ANNOT_TYPE
            /\ va._Annot_key = ve._Annot_key
            /\ ve._Refs_key = r._Refs_key }

evidenceCmd ==
    { vt \in db.VOC_Term :
        \E vat \in db.VOC_AnnotType :
            /\ <<vat._AnnotType_key>> = CURRENT_ANNOT_TYPE
            /\ vat._EvidenceVocab_key = vt._Vocab_key }

qualifierCmd ==
    { vt \in db.VOC_Term :
        \E va \in db.VOC_AnnotType :
            /\ <<va._AnnotType_key>> = CURRENT_ANNOT_TYPE
            /\ va._QualifierVocab_key = vt._Vocab_key }

propertyCmd ==
    { t \in db.VOC_Term : <<t._Vocab_key>> = ANNOTPROPERTY }

\* the last function _initialize calls; _initialize then sets INITIALIZED.
\* os.environ['ANNOTPROPERTY'] raises KeyError when the variable is not set
_initializeKeyMaps ==
    /\ pc = "_initializeKeyMaps"
    /\ IF ANNOTPROPERTY = NoneInt
       THEN /\ raised' = "KeyError"
            /\ pc' = "terminated"
            /\ UNCHANGED <<engine, keyMaps>>
       ELSE /\ TERM_MAP' = KeyMap(termCmd, "_Object_key", "accID")
            /\ MARKER_MAP' = KeyMap(markerCmd, "_Object_key", "accID")
            /\ JNUM_MAP' = KeyMap(jnumCmd, "_Refs_key", "jnumID")
            /\ EVIDENCE_MAP' = KeyMap(evidenceCmd, "_Term_key", "abbreviation")
            /\ QUALIFIER_MAP' = KeyMap(qualifierCmd, "_Term_key", "term")
            /\ USER_MAP' = KeyMap(db.MGI_User, "_User_key", "login")
            /\ PROPERTY_MAP' = KeyMap(propertyCmd, "_Term_key", "term")
            /\ INITIALIZED' = TRUE
            /\ pc' = "fetch"
            /\ UNCHANGED <<MAX_ANNOTATIONS, CURRENT_ANNOT_TYPE,
                           SOURCE_ANNOT_KEY, raised>>
    /\ UNCHANGED <<db, ANNOTPROPERTY, cursor, MARKERS_TO_DO, temp, batch,
                   driver, run, previous>>

\* index (0-based) at which the next batch starts
startIndex(last) == IF last = NoneInt THEN 0 ELSE last[1] + 1

\* the key at a 0-based index of MARKER_KEYS
KeyAt(i) == MARKER_KEYS[i + 1]

\* faulty variant of Fits: the ceiling is not looked at
FitsAlways(total) == TRUE

\* faulty variant of endIndexFrom: the batch is never extended
endIndexUnextended(total, endIndex) == endIndex

\* faulty variant of ExhaustedIndex: the cursor starts over
ExhaustedIndexReset(last) == NoneInt

\* "total < MAX_ANNOTATIONS"
Fits(total) == total < MAX_ANNOTATIONS

\* the while loop of _getNextMarkerBatch: the endIndex it ends with
RECURSIVE endIndexFrom(_, _)
endIndexFrom(total, endIndex) ==
    IF Fits(total) /\ endIndex < Len(MARKER_KEYS) - 1
    THEN LET i == endIndex + 1
             newTotal == total + ANNOTATION_COUNTS[KeyAt(i)]
         IN  endIndexFrom(newTotal, IF Fits(newTotal) THEN i ELSE endIndex)
    ELSE endIndex

\* LAST_MARKER_KEY_INDEX after _getNextMarkerBatch has returned (None, None):
\* it is not assigned
ExhaustedIndex(last) == last

\* _getNextMarkerBatch: the local variables it returns with (an index or a
\* key that is None is the empty tuple)
_getNextMarkerBatch ==
    LET start == startIndex(LAST_MARKER_KEY_INDEX)
    IN  IF start > Len(MARKER_KEYS) - 1
        THEN [startIndex |-> start, endIndex |-> NoneInt,
              startMarker |-> NoneInt, endMarker |-> NoneInt]
        ELSE LET end == endIndexFrom(ANNOTATION_COUNTS[KeyAt(start)], start)
             IN  [startIndex |-> start, endIndex |-> <<end>>,
                  startMarker |-> <<KeyAt(start)>>,
                  endMarker |-> <<KeyAt(end)>>]

(***************************************************************************)
(* Fetching one batch: _getMarkers and what it calls                       *)
(***************************************************************************)
\* "select distinct k._Marker_key, x.*": a row of x with the marker key
WithMarker(m, row) == [_Marker_key |-> m] @@ row

\* (keeper, annotation) pairs joined by the fetch queries for a batch
KeptAnnots(startMarker, endMarker) ==
    { x \in BagToSet(temp.genotype_keepers) \X QualifyingAnnots :
        /\ x[1]._Genotype_key = x[2]._Object_key
        /\ x[1]._Marker_key >= startMarker
        /\ x[1]._Marker_key <= endMarker }

\* marker key -> set of annotation rows
_getAnnotations(startMarker, endMarker) ==
    LET rows == { WithMarker(x[1]._Marker_key, x[2]) :
                  x \in KeptAnnots(startMarker, endMarker) }
    IN  [m \in { r._Marker_key : r \in rows } |->
            { r \in rows : r._Marker_key = m }]

\* rawEvidence, the rows of the evidence query
_getEvidence(startMarker, endMarker) ==
    { WithMarker(x[1][1]._Marker_key, x[2]) :
      x \in { y \in KeptAnnots(startMarker, endMarker) \X db.VOC_Evidence :
                y[1][2]._Annot_key = y[2]._Annot_key } }

\* the rows of the property query, before they are ordered
PropertyRows(startMarker, endMarker) ==
    { [_Marker_key |-> x[1]._Marker_key, _Annot_key |-> x[1]._Annot_key]
         @@ x[2] :
      x \in { y \in _getEvidence(startMarker, endMarker)
                     \X db.VOC_Evidence_Property :
                y[1]._AnnotEvidence_key = y[2]._AnnotEvidence_key } }

\* order by p._AnnotEvidence_key, p.stanza, p.sequenceNum (strictly before)
PropertyBefore(p, q) ==
    \/ p._AnnotEvidence_key < q._AnnotEvidence_key
    \/ /\ p._AnnotEvidence_key = q._AnnotEvidence_key
       /\ \/ p.stanza < q.stanza
          \/ p.stanza = q.stanza /\ p.sequenceNum < q.sequenceNum

\* every order in which the store may return the property rows
RECURSIVE PropertyOrders(_)
PropertyOrders(S) ==
    IF S = {} THEN { << >> }
    ELSE UNION { { <<x>> \o rest : rest \in PropertyOrders(S \ {x}) } :
                 x \in { y \in S : \A z \in S : ~ PropertyBefore(z, y) } }

\* the rows of the note query, before they are ordered
NoteRows(startMarker, endMarker) ==
    { WithMarker(x[1]._Marker_key, x[2]) :
      x \in { y \in _getEvidence(startMarker, endMarker) \X db.MGI_Note :
                /\ y[1]._AnnotEvidence_key = y[2]._Object_key
                /\ y[2]._NoteType_key \in
                       {GENERAL_NOTE, BACKGROUND_SENSITIVITY_NOTE} } }

\* every order in which the store may return the note rows
\* (order by n._Object_key)
RECURSIVE NoteOrders(_)
NoteOrders(S) ==
    IF S = {} THEN { << >> }
    ELSE UNION { { <<x>> \o rest : rest \in NoteOrders(S \ {x}) } :
                 x \in { y \in S : \A z \in S :
                                     ~ (z._Object_key < y._Object_key) } }

\* the elements of a sequence
Range(s) == { s[i] : i \in DOMAIN s }

Max(S) == CHOOSE x \in S : \A y \in S : y <= x

\* faulty variant of SourceValue: the key of the evidence record
SourceValueOfEvidence(row) == ToString(row._AnnotEvidence_key)

\* the value of the source property: the key of the source annotation,
\* written as the text the property clause will hold
SourceValue(row) == ToString(row._Annot_key)

\* the source rows (seqRows) added for one evidence key that has properties
seqRows(rows) ==
    LET top == Max({ rows[i].sequenceNum : i \in DOMAIN rows })
        seqNum == IF top = 0 THEN 1 ELSE top + 1
        firsts == SortKeys({ i \in DOMAIN rows :
                      \A j \in 1 .. (i - 1) :
                          rows[j]._Marker_key # rows[i]._Marker_key })
    IN  [n \in DOMAIN firsts |->
            [rows[firsts[n]] EXCEPT
                !._PropertyTerm_key = SOURCE_ANNOT_KEY[1],
                !.sequenceNum = seqNum + n,
                !.value = SourceValue(rows[firsts[n]])]]

\* the source row made for an (evidence, marker) pair without properties
NewSourceRow(row) ==
    [_Marker_key |-> row._Marker_key,
     _AnnotEvidence_key |-> row._AnnotEvidence_key,
     _PropertyTerm_key |-> SOURCE_ANNOT_KEY[1],
     stanza |-> 1, sequenceNum |-> 1,
     value |-> SourceValue(row)]

RECURSIVE SourceRowsOf(_)
SourceRowsOf(raw) ==
    IF raw = {} THEN << >>
    ELSE LET row == CHOOSE x \in raw :
                        \A y \in raw : x._Marker_key <= y._Marker_key
         IN  <<NewSourceRow(row)>>
                 \o SourceRowsOf({ y \in raw :
                                     y._Marker_key # row._Marker_key })

\* evidence key -> list of property rows, each list ending with the source
\* rows.  The source rows of an evidence key without properties follow the
\* order of rawEvidence, which only matters across markers and is undone by
\* _splitByMarker; they are listed by ascending marker key here.
_getEvidenceProperties(properties, rawEvidence) ==
    LET byEvidenceKey(e) ==
            SelectSeq(properties, LAMBDA r : r._AnnotEvidence_key = e)
        paired(row) ==
            \E i \in DOMAIN properties :
                /\ properties[i]._AnnotEvidence_key = row._AnnotEvidence_key
                /\ properties[i]._Marker_key = row._Marker_key
        keys == { r._AnnotEvidence_key : r \in Range(properties) }
                    \cup { r._AnnotEvidence_key : r \in rawEvidence }
    IN  [e \in keys |->
            (IF byEvidenceKey(e) = << >> THEN << >>
             ELSE byEvidenceKey(e) \o seqRows(byEvidenceKey(e)))
            \o SourceRowsOf({ r \in rawEvidence :
                                /\ r._AnnotEvidence_key = e
                                /\ ~ paired(r) })]

\* marker key -> original key -> rows of that marker, in their order
_splitByMarker(results) ==
    LET markers == UNION { { r._Marker_key : r \in Range(results[k]) } :
                           k \in DOMAIN results }
    IN  [m \in markers |->
            [k \in { kk \in DOMAIN results :
                       \E r \in Range(results[kk]) : r._Marker_key = m } |->
                SelectSeq(results[k], LAMBDA r : r._Marker_key = m)]]

\* annotation key -> evidence rows, for the evidence rows of one marker
EvidenceOf(rawEvidence, m) ==
    LET mine == { r \in rawEvidence : r._Marker_key = m }
    IN  [a \in { r._Annot_key : r \in mine } |->
            { r \in mine : r._Annot_key = a }]

\* evidence key -> the note rows kept for it, in the dictionary's order:
\* a note key stands where it first came, with the row that came last
_getNotes(results) ==
    [e \in { r._Object_key : r \in Range(results) } |->
        LET mine == SelectSeq(results, LAMBDA r : r._Object_key = e)
            firsts == SortKeys({ i \in DOMAIN mine :
                          \A j \in 1 .. (i - 1) :
                              mine[j]._Note_key # mine[i]._Note_key })
        IN  [n \in DOMAIN firsts |->
                mine[Max({ i \in DOMAIN mine :
                            mine[i]._Note_key = mine[firsts[n]]._Note_key })]]]

\* marker key -> evidence key -> notes; the marker is that of the first note
_splitNotesByMarker(notes) ==
    [m \in { notes[e][1]._Marker_key : e \in DOMAIN notes } |->
        [e \in { ee \in DOMAIN notes : notes[ee][1]._Marker_key = m } |->
            notes[e]]]

(***************************************************************************)
(* class Marker                                                            *)
(***************************************************************************)
\* text is a sequence of one-character strings
Whitespace == {" ", "\n", "\t"}

RECURSIVE lstrip(_)
lstrip(s) ==
    IF s # << >> /\ Head(s) \in Whitespace THEN lstrip(Tail(s)) ELSE s

RECURSIVE rstrip(_)
rstrip(s) ==
    IF s # << >> /\ s[Len(s)] \in Whitespace
    THEN rstrip(SubSeq(s, 1, Len(s) - 1)) ELSE s

strip(s) == rstrip(lstrip(s))

replace(s, old, new) == [i \in DOMAIN s |-> IF s[i] = old THEN new ELSE s[i]]

\* the loop of _concatenateNotes over the first n notes of an evidence key
RECURSIVE NotesUpTo(_, _)
NotesUpTo(noteRows, n) ==
    IF n = 0 THEN << >>
    ELSE LET notes == NotesUpTo(noteRows, n - 1)
         IN  (IF notes # << >> THEN strip(notes) \o <<" ">> ELSE notes)
                 \o noteRows[n].note

_concatenateNotes(self, evidenceKey) ==
    LET notes == IF evidenceKey \in DOMAIN self.notes
                 THEN NotesUpTo(self.notes[evidenceKey],
                                Len(self.notes[evidenceKey]))
                 ELSE << >>
    IN  strip(replace(replace(notes, "\n", " "), "\t", " "))

\* the text of _buildPropertiesValue as the sequence of its pieces: each
\* clause is name, "&=&", value; "&==&" joins the clauses of a stanza and
\* "&===&" joins the stanzas, a new stanza starting where the stanza number
\* differs from that of the previous row
RECURSIVE ClausesUpTo(_, _)
ClausesUpTo(rows, n) ==
    IF n = 0 THEN << >>
    ELSE ClausesUpTo(rows, n - 1)
            \o (IF n = 1 THEN << >>
                ELSE IF rows[n].stanza # rows[n - 1].stanza
                     THEN <<"&===&">> ELSE <<"&==&">>)
            \o << get(PROPERTY_MAP, rows[n]._PropertyTerm_key), "&=&",
                  rows[n].value >>

_buildPropertiesValue(self, evidenceKey) ==
    IF evidenceKey \in DOMAIN self.evidenceProperties
    THEN ClausesUpTo(self.evidenceProperties[evidenceKey],
                     Len(self.evidenceProperties[evidenceKey]))
    ELSE << >>

\* the qualifier column: '' for a qualifier the map does not know
QualifierText(annotRow) ==
    IF get(QUALIFIER_MAP, annotRow._Qualifier_key) = None
    THEN "" ELSE get(QUALIFIER_MAP, annotRow._Qualifier_key)

\* one row of finalAnnotations
FinalRow(self, annotRow, evidRow) ==
    << get(TERM_MAP, annotRow._Term_key),
       get(MARKER_MAP, annotRow._Marker_key),
       get(JNUM_MAP, evidRow._Refs_key),
       get(EVIDENCE_MAP, evidRow._EvidenceTerm_key),
       IF evidRow.inferredFrom = None THEN "" ELSE evidRow.inferredFrom,
       QualifierText(annotRow),
       get(USER_MAP, evidRow._ModifiedBy_key),
       "",
       _concatenateNotes(self, evidRow._AnnotEvidence_key),
       "",
       _buildPropertiesValue(self, evidRow._AnnotEvidence_key) >>

\* Marker.finalize: a no-op on a finalized marker
finalize(self) ==
    IF self.finalized THEN self
    ELSE [self EXCEPT
            !.finalized = TRUE,
            !.finalAnnotations =
                BagOfRows(
                    { x \in self.annotations \X
                            UNION { self.evidence[a] :
                                    a \in DOMAIN self.evidence } :
                        /\ x[1]._Term_key # NO_PHENOTYPIC_ANALYSIS
                        /\ x[2]._Annot_key = x[1]._Annot_key },
                    LAMBDA x : FinalRow(self, x[1], x[2]))]

\* what the driver's variable marker holds: nothing yet, None, or a Marker
NotCalled == [kind |-> "unset"]
NoMarker == [kind |-> "None"]

\* Marker(markerKey) after _getMarkers has called its set* methods
Marker(markerKey, annotations, evidence, properties, notes) ==
    [kind |-> "Marker", markerKey |-> markerKey, finalized |-> FALSE,
     annotations |-> annotations[markerKey],
     evidence |-> evidence,
     evidenceProperties |-> IF markerKey \in DOMAIN properties
                            THEN properties[markerKey] ELSE << >>,
     notes |-> IF markerKey \in DOMAIN notes
               THEN notes[markerKey] ELSE << >>,
     finalAnnotations |-> EmptyBag]

\* the list of Marker objects of a batch, for one order of the property
\* rows and one order of the note rows
_getMarkers(startMarker, endMarker, propertyResults, noteResults) ==
    LET annotations == _getAnnotations(startMarker, endMarker)
        rawEvidence == _getEvidence(startMarker, endMarker)
        properties == _splitByMarker(
                          _getEvidenceProperties(propertyResults, rawEvidence))
        notes == _splitNotesByMarker(_getNotes(noteResults))
        markerKeys == SortKeys(DOMAIN annotations)
    IN  [i \in DOMAIN markerKeys |->
            Marker(markerKeys[i], annotations,
                   EvidenceOf(rawEvidence, markerKeys[i]), properties, notes)]

(***************************************************************************)
(* Public functions and the driver's loop                                  *)
(***************************************************************************)
\* the annotation types a caller may pass (one of them is not a genotype
\* annotation type)
AnnotTypes == {DO_GENOTYPE, MP_GENOTYPE, MARKER_FEATURE}

\* faulty variant of setAnnotationType: any annotation type is accepted
setAnnotationTypeUnchecked(annotType) ==
    /\ pc = "idle"
    /\ CURRENT_ANNOT_TYPE = NoneInt
    /\ marker = NotCalled
    /\ CURRENT_ANNOT_TYPE' = <<annotType>>
    /\ SOURCE_ANNOT_KEY' = IF annotType = DO_GENOTYPE
                           THEN <<SOURCE_ANNOT_KEY_DO>>
                           ELSE <<SOURCE_ANNOT_KEY_MP>>
    /\ UNCHANGED <<db, ANNOTPROPERTY, MAX_ANNOTATIONS, INITIALIZED, cursor,
                   MARKERS_TO_DO, keyMaps, temp, pc, batch, driver, raised,
                   run, previous>>

\* setAnnotationType, called by the driver's initialize() before the loop
setAnnotationType(annotType) ==
    /\ pc = "idle"
    /\ CURRENT_ANNOT_TYPE = NoneInt
    /\ marker = NotCalled
    /\ IF annotType \in {DO_GENOTYPE, MP_GENOTYPE}
       THEN /\ CURRENT_ANNOT_TYPE' = <<annotType>>
            /\ SOURCE_ANNOT_KEY' = IF annotType = DO_GENOTYPE
                                   THEN <<SOURCE_ANNOT_KEY_DO>>
                                   ELSE <<SOURCE_ANNOT_KEY_MP>>
            /\ UNCHANGED <<pc, raised>>
       ELSE /\ raised' = "TypeError"   \* Error is a string: raise Error(...)
            /\ pc' = "terminated"
            /\ UNCHANGED <<CURRENT_ANNOT_TYPE, SOURCE_ANNOT_KEY>>
    /\ UNCHANGED <<db, ANNOTPROPERTY, MAX_ANNOTATIONS, INITIALIZED, cursor,
                   MARKERS_TO_DO, keyMaps, temp, batch, driver, run,
                   previous>>

\* faulty variant of NeedsInitialize: INITIALIZED is not looked at
NeedsInitializeAlways == TRUE

\* "if not INITIALIZED: _initialize()"
NeedsInitialize == ~ INITIALIZED

\* a call of getNextMarker: it runs _initialize first when that is needed.
\* Without an annotation type the first query of _initialize cannot be
\* formatted ('%d' % None) and the call ends with a TypeError.
getNextMarker ==
    /\ pc = "idle"
    /\ IF marker.kind = "Marker" THEN marker.finalized ELSE TRUE
    /\ IF ~ NeedsInitialize
       THEN pc' = "fetch" /\ UNCHANGED raised
       ELSE IF CURRENT_ANNOT_TYPE = NoneInt
            THEN pc' = "terminated" /\ raised' = "TypeError"
            ELSE pc' = "_identifyExpressesComponent" /\ UNCHANGED raised
    /\ UNCHANGED <<db, ANNOTPROPERTY, engine, cursor, MARKERS_TO_DO, keyMaps,
                   temp, batch, driver, run, previous>>

\* getNextMarker returns the marker it popped, or None
Return(markers) ==
    IF markers = << >>
    THEN /\ marker' = NoMarker
         /\ MARKERS_TO_DO' = markers
         /\ UNCHANGED returned
    ELSE /\ marker' = Head(markers)
         /\ MARKERS_TO_DO' = Tail(markers)
         /\ returned' = Append(returned, Head(markers).markerKey)

\* the rest of getNextMarker, with MARKERS_TO_DO still holding markers
PopCached ==
    /\ pc = "fetch"
    /\ MARKERS_TO_DO # << >>
    /\ Return(MARKERS_TO_DO)
    /\ pc' = "idle"
    /\ UNCHANGED <<db, ANNOTPROPERTY, engine, cursor, keyMaps, temp, batch,
                   derived, raised, run, previous>>

\* the rest of getNextMarker, with MARKERS_TO_DO empty: the next batch is
\* computed and, unless there is none, fetched
FetchBatch ==
    /\ pc = "fetch"
    /\ MARKERS_TO_DO = << >>
    /\ batch' = _getNextMarkerBatch
    /\ IF batch'.startMarker = NoneInt
       THEN /\ marker' = NoMarker
            /\ LAST_MARKER_KEY_INDEX' = ExhaustedIndex(LAST_MARKER_KEY_INDEX)
            /\ UNCHANGED <<MARKERS_TO_DO, returned>>
       ELSE /\ LAST_MARKER_KEY_INDEX' = batch'.endIndex
            /\ \E propertyResults \in PropertyOrders(
                       PropertyRows(batch'.startMarker[1],
                                    batch'.endMarker[1])),
                  noteResults \in NoteOrders(
                       NoteRows(batch'.startMarker[1], batch'.endMarker[1])) :
                  Return(_getMarkers(batch'.startMarker[1],
                                     batch'.endMarker[1],
                                     propertyResults, noteResults))
    /\ pc' = "idle"
    /\ UNCHANGED <<db, ANNOTPROPERTY, engine, ANNOTATION_COUNTS, MARKER_KEYS,
                   keyMaps, temp, derived, raised, run, previous>>

\* the body of the driver's loop: marker.getAnnotations() and the rows read
getAnnotations ==
    /\ pc = "idle"
    /\ marker.kind = "Marker"
    /\ ~ marker.finalized
    /\ marker' = finalize(marker)
    /\ derived' = derived (+) marker'.finalAnnotations
    /\ UNCHANGED <<db, ANNOTPROPERTY, engine, cursor, MARKERS_TO_DO, keyMaps,
                   temp, pc, batch, returned, raised, run, previous>>

\* addTiming as the driver calls it after its loop: the temp tables are
\* dropped and the program ends
addTiming ==
    /\ pc = "idle"
    /\ marker = NoMarker
    /\ temp' = NoTempTables
    /\ pc' = "done"
    /\ UNCHANGED <<db, ANNOTPROPERTY, engine, cursor, MARKERS_TO_DO, keyMaps,
                   batch, driver, raised, run, previous>>

\* the module's globals as the import leaves them
NoKeyMap == << >>
NoBatch == [startIndex |-> 0, endIndex |-> NoneInt,
            startMarker |-> NoneInt, endMarker |-> NoneInt]

\* a new process is started over the same snapshot with the same
\* configuration, after a run that drained the stream
NewRun ==
    /\ pc = "idle"
    /\ marker = NoMarker
    /\ run < MaxRuns
    /\ run' = run + 1
    /\ previous' = [keepers |-> temp.genotype_keepers, derived |-> derived]
    /\ INITIALIZED' = FALSE
    /\ ANNOTATION_COUNTS' = << >>
    /\ MARKER_KEYS' = << >>
    /\ LAST_MARKER_KEY_INDEX' = NoneInt
    /\ MARKERS_TO_DO' = << >>
    /\ TERM_MAP' = NoKeyMap /\ MARKER_MAP' = NoKeyMap /\ JNUM_MAP' = NoKeyMap
    /\ EVIDENCE_MAP' = NoKeyMap /\ QUALIFIER_MAP' = NoKeyMap
    /\ USER_MAP' = NoKeyMap /\ PROPERTY_MAP' = NoKeyMap
    /\ temp' = NoTempTables
    /\ batch' = NoBatch
    /\ marker' = NotCalled
    /\ returned' = << >>
    /\ derived' = EmptyBag
    /\ UNCHANGED <<db, ANNOTPROPERTY, MAX_ANNOTATIONS, CURRENT_ANNOT_TYPE,
                   SOURCE_ANNOT_KEY, pc, raised>>

_initialize ==
    \/ _identifyExpressesComponent
    \/ _identifyMutationInvolves
    \/ _countAllelePairsPerGenotype
    \/ _keepNaturallySimpleGenotypes
    \/ _buildScratchPad
    \/ _identifyReporterTransgenes
    \/ _removeConditionalGenotypes
    \/ _removeReporterTransgenes
    \/ _identifyTransactivators
    \/ _removeTransactivators
    \/ _identifyWildTypeAlleles
    \/ _removeWildTypeAllelesFromScratchPad
    \/ _collectMarkerSets
    \/ _handleMultipleMarkers
    \/ _handleMutationInvolves
    \/ _handleTransgenes
    \/ _handleDockingSites
    \/ _handleOtherSingles
    \/ _removeNullsAndGtRosa
    \/ _getMarkerMetaData
    \/ _initializeKeyMaps

Next ==
    \/ \E annotType \in AnnotTypes : setAnnotationType(annotType)
    \/ getNextMarker
    \/ _initialize
    \/ PopCached
    \/ FetchBatch
    \/ getAnnotations
    \/ addTiming

NextRerun == Next \/ NewRun

(***************************************************************************)
(* Fact snapshots                                                          *)
(***************************************************************************)
\* the markers of the snapshots: two genes, a transgene, a
\* complex/cluster/region, a gene without MGI ID, a gene with a heritable
\* feature type, a second transgene, and the three docking sites
Markers ==
    { [_Marker_key |-> 1, _Marker_Type_key |-> 1, _Organism_key |-> 1],
      [_Marker_key |-> 2, _Marker_Type_key |-> 1, _Organism_key |-> 1],
      [_Marker_key |-> 3, _Marker_Type_key |-> TRANSGENE, _Organism_key |-> 1],
      [_Marker_key |-> 4, _Marker_Type_key |-> COMPLEX_CLUSTER_REGION,
       _Organism_key |-> 1],
      [_Marker_key |-> 5, _Marker_Type_key |-> 1, _Organism_key |-> 2],
      [_Marker_key |-> 6, _Marker_Type_key |-> 1, _Organism_key |-> 1],
      [_Marker_key |-> 7, _Marker_Type_key |-> TRANSGENE, _Organism_key |-> 1],
      [_Marker_key |-> COL1A1, _Marker_Type_key |-> 1, _Organism_key |-> 1],
      [_Marker_key |-> HPRT, _Marker_Type_key |-> 1, _Organism_key |-> 1],
      [_Marker_key |-> GT_ROSA, _Marker_Type_key |-> 1, _Organism_key |-> 1] }

Allele(key, markerKey, wild, type, subtypes, involves, expresses) ==
    [_Allele_key |-> key, _Marker_key |-> markerKey, isWildType |-> wild,
     _Allele_Type_key |-> type, subtypes |-> subtypes, involves |-> involves,
     expresses |-> expresses]

\* the alleles of the snapshots, each with its subtypes, the markers its
\* mutation involves and the (marker, relationship term) pairs it expresses
\* (every allele but allele 13 has an MGI ID);
\* EXPRESSES_MOUSE_GENE + 1 stands for any other relationship term
Alleles ==
    { Allele(11, 1, 0, 0, {}, {}, {}),
      Allele(12, 1, 1, 0, {}, {}, {}),
      Allele(13, 1, 0, 0, {}, {}, {}),
      Allele(14, 2, 0, 0, {}, {1}, {}),
      Allele(15, 3, 0, TRANSGENIC, {INSERTED_EXPRESSED_SEQUENCE}, {},
             {<<1, EXPRESSES_MOUSE_GENE>>}),
      Allele(16, 3, 0, TRANSGENIC, {REPORTER}, {}, {}),
      Allele(17, 2, 0, 0, {RECOMBINASE}, {}, {}),
      Allele(18, HPRT, 0, 0, {}, {}, {}),
      Allele(19, GT_ROSA, 0, 0, {INSERTED_EXPRESSED_SEQUENCE}, {},
             {<<2, EXPRESSES_MOUSE_GENE>>}),
      Allele(20, GT_ROSA, 0, 0, {}, {}, {}),
      Allele(21, 3, 0, TRANSGENIC, {}, {2}, {}),
      Allele(22, COL1A1, 0, 0, {}, {1}, {}),
      Allele(23, 1, 0, 0, {}, {}, {<<1, EXPRESSES_MOUSE_GENE>>}),
      Allele(24, 4, 0, 0, {}, {2}, {}),
      Allele(25, NullMarker, 0, 0, {}, {}, {}),
      Allele(26, 3, 0, TRANSGENIC, {TRANSACTIVATOR}, {}, {}),
      Allele(27, 5, 0, 0, {}, {}, {}),
      Allele(28, 6, 0, 0, {}, {1}, {}),
      Allele(29, 3, 0, TRANSGENIC, {REPORTER}, {},
             {<<1, EXPRESSES_MOUSE_GENE>>}),
      Allele(30, 2, 0, 0, {}, {}, {}),
      Allele(31, COL1A1, 0, 0, {}, {}, {}),
      Allele(32, 7, 0, TRANSGENIC, {INSERTED_EXPRESSED_SEQUENCE}, {},
             {<<1, EXPRESSES_MOUSE_GENE + 1>>}),
      Allele(33, 7, 0, TRANSGENIC, {INSERTED_EXPRESSED_SEQUENCE}, {},
             {<<1, EXPRESSES_MOUSE_GENE>>, <<2, EXPRESSES_MOUSE_GENE>>}),
      Allele(34, 2, 0, 0, {}, {}, {<<1, EXPRESSES_MOUSE_GENE>>}),
      Allele(35, 2, 0, 0, {}, {}, {<<2, EXPRESSES_MOUSE_GENE + 1>>}) }

AlleleOf(key) == CHOOSE a \in Alleles : a._Allele_key = key

Genotype(key, conditional, alleleKeys) ==
    [_Genotype_key |-> key, isConditional |-> conditional,
     alleles |-> alleleKeys]

\* a genotype annotation and an evidence record of it
Annot(key, type, genotypeKey, termKey, qualifierKey) ==
    [_Annot_key |-> key, _AnnotType_key |-> type, _Object_key |-> genotypeKey,
     _Term_key |-> termKey, _Qualifier_key |-> qualifierKey]

Evidence(key, annotKey, inferredFrom) ==
    [_AnnotEvidence_key |-> key, _Annot_key |-> annotKey,
     _EvidenceTerm_key |-> 501, _Refs_key |-> 701,
     inferredFrom |-> inferredFrom, _ModifiedBy_key |-> 801]

Property(key, evidenceKey, termKey, stanza, sequenceNum, value) ==
    [_EvidenceProperty_key |-> key, _AnnotEvidence_key |-> evidenceKey,
     _PropertyTerm_key |-> termKey, stanza |-> stanza,
     sequenceNum |-> sequenceNum, value |-> value]

Note(key, evidenceKey, type, text) ==
    [_Note_key |-> key, _Object_key |-> evidenceKey, _NoteType_key |-> type,
     note |-> text]

Term(key, vocab, term, abbreviation) ==
    [_Term_key |-> key, _Vocab_key |-> vocab, term |-> term,
     abbreviation |-> abbreviation]

Accession(key, mgiType, accID) ==
    [_Object_key |-> key, _MGIType_key |-> mgiType, accID |-> accID]

\* the store holding the given genotypes, annotations, evidence records,
\* properties and notes, over the markers, alleles and vocabularies above
Snapshot(genotypes, annots, evidence, properties, notes) ==
    [ GXD_Genotype |->
          { [_Genotype_key |-> g._Genotype_key,
             isConditional |-> g.isConditional] : g \in genotypes },
      GXD_AlleleGenotype |->
          UNION { { [_Genotype_key |-> g._Genotype_key, _Allele_key |-> a,
                     _Marker_key |-> AlleleOf(a)._Marker_key] :
                    a \in g.alleles } : g \in genotypes },
      ALL_Allele |->
          { [_Allele_key |-> a._Allele_key, _Marker_key |-> a._Marker_key,
             isWildType |-> a.isWildType,
             _Allele_Type_key |-> a._Allele_Type_key] : a \in Alleles },
      MRK_Marker |-> Markers,
      VOC_Annot |->
          annots
          \cup UNION { { Annot(1000 * a._Allele_key + (t % 100),
                               ALLELE_SUBTYPE, a._Allele_key, t, 0) :
                         t \in a.subtypes } : a \in Alleles }
          \cup { Annot(901, MARKER_FEATURE, 6, 6238170, 0) },
      MGI_Relationship |->
          UNION { { [_Category_key |-> MUTATION_INVOLVES,
                     _Object_key_1 |-> a._Allele_key, _Object_key_2 |-> m,
                     _RelationshipTerm_key |-> 0] : m \in a.involves }
                  \cup
                  { [_Category_key |-> EXPRESSES_COMPONENT,
                     _Object_key_1 |-> a._Allele_key, _Object_key_2 |-> e[1],
                     _RelationshipTerm_key |-> e[2]] : e \in a.expresses } :
                  a \in Alleles },
      ACC_Accession |->
          { Accession(g._Genotype_key, MGITYPE_GENOTYPE,
                      "MGI:" \o ToString(5000 + g._Genotype_key)) :
            g \in genotypes }
          \cup { Accession(m._Marker_key, MGITYPE_MARKER,
                           "MGI:" \o ToString(m._Marker_key)) :
                 m \in { x \in Markers : x._Marker_key # 5 } }
          \cup { Accession(a._Allele_key, MGITYPE_ALLELE,
                           "MGI:" \o ToString(9000 + a._Allele_key)) :
                 a \in { x \in Alleles : x._Allele_key # 13 } }
          \cup { Accession(301, MGITYPE_TERM, "DOID:301"),
                 Accession(303, MGITYPE_TERM, "MP:303") },
      VOC_Evidence |-> evidence,
      VOC_Evidence_Property |-> properties,
      MGI_Note |-> notes,
      VOC_Term |->
          { Term(301, 125, "disease", None), Term(302, 125, "syndrome", None),
            Term(303, 5, "phenotype", None),
            Term(NO_PHENOTYPIC_ANALYSIS, 5, "no phenotypic analysis", None),
            Term(401, 53, "NOT", None), Term(501, 2, "traceable", "TAS"),
            Term(601, 86, "sex", None), Term(602, 86, "dose", None),
            Term(SOURCE_ANNOT_KEY_DO, 86, "_SourceAnnot_key", None),
            Term(SOURCE_ANNOT_KEY_MP, 86, "_SourceAnnot_key", None) },
      VOC_AnnotType |->
          { [_AnnotType_key |-> t, _EvidenceVocab_key |-> 2,
             _QualifierVocab_key |-> 53] : t \in {DO_GENOTYPE, MP_GENOTYPE} },
      BIB_Citation_Cache |-> { [_Refs_key |-> 701, jnumID |-> "J:701"] },
      MGI_User |-> { [_User_key |-> 801, login |-> "curator"] } ]

\* the process right after the module is imported
Imported ==
    /\ CURRENT_ANNOT_TYPE = NoneInt
    /\ SOURCE_ANNOT_KEY = NoneInt
    /\ INITIALIZED = FALSE
    /\ ANNOTATION_COUNTS = << >>
    /\ MARKER_KEYS = << >>
    /\ LAST_MARKER_KEY_INDEX = NoneInt
    /\ MARKERS_TO_DO = << >>
    /\ TERM_MAP = NoKeyMap /\ MARKER_MAP = NoKeyMap /\ JNUM_MAP = NoKeyMap
    /\ EVIDENCE_MAP = NoKeyMap /\ QUALIFIER_MAP = NoKeyMap
    /\ USER_MAP = NoKeyMap /\ PROPERTY_MAP = NoKeyMap
    /\ temp = NoTempTables
    /\ pc = "idle"
    /\ batch = NoBatch
    /\ marker = NotCalled
    /\ returned = << >>
    /\ derived = EmptyBag
    /\ raised = None
    /\ run = 1
    /\ previous = [keepers |-> EmptyBag, derived |-> EmptyBag]

\* a genotype with a disease and a phenotype annotation, kept by rule #1,
\* and one annotated only to 'no phenotypic analysis'
Companions == { Genotype(2, 0, {30}), Genotype(3, 0, {11}) }

CompanionAnnots ==
    { Annot(102, DO_GENOTYPE, 2, 301, 0), Annot(103, MP_GENOTYPE, 2, 303, 401),
      Annot(104, DO_GENOTYPE, 3, NO_PHENOTYPIC_ANALYSIS, 0) }

\* genotypes with three links: to three genes; to two genes and a
\* transgene expressing one of them; to two genes and a reporter transgene;
\* to a gene, a gene whose mutation involves it and a docking site
ThreeLinkShapes == { {11, 30, 18}, {11, 30, 15}, {11, 30, 16}, {11, 14, 31} }

\* snapshots for the rule cascade: genotype 1 has any alleles, up to
\* MaxLinks of them, or the alleles of a three-link shape, and is
\* conditional or not
Init ==
    /\ \E alleleKeys \in SUBSET { a._Allele_key : a \in Alleles },
          conditional \in {0, 1} :
          /\ Cardinality(alleleKeys) <= MaxLinks
             \/ alleleKeys \in ThreeLinkShapes
          /\ db = Snapshot(
                   {Genotype(1, conditional, alleleKeys)} \cup Companions,
                   {Annot(101, DO_GENOTYPE, 1, 301, 0)} \cup CompanionAnnots,
                   { Evidence(201, 101, None), Evidence(202, 102, None),
                     Evidence(203, 103, None), Evidence(204, 104, None) },
                   {}, {})
    /\ ANNOTPROPERTY = <<86>>
    /\ MAX_ANNOTATIONS = MaxCeiling
    /\ Imported

Spec == Init /\ [][Next]_vars

\* snapshots for the cursor: three genotypes kept by rule #1 for the markers
\* 1, 2 and Hprt, each with up to MaxAnnots annotations; any ceiling up to
\* MaxCeiling; ANNOTPROPERTY set or not
InitCursor ==
    /\ \E n \in [1 .. 3 -> 0 .. MaxAnnots] :
          LET annots == UNION { { Annot(100 * g + j, DO_GENOTYPE, g, 301, 0) :
                                  j \in 1 .. n[g] } : g \in 1 .. 3 }
          IN  db = Snapshot(
                      { Genotype(1, 0, {11}), Genotype(2, 0, {30}),
                        Genotype(3, 0, {18}) },
                      annots,
                      { Evidence(1000 + a._Annot_key, a._Annot_key, None) :
                        a \in annots },
                      {}, {})
    /\ ANNOTPROPERTY \in {NoneInt, <<86>>}
    /\ MAX_ANNOTATIONS \in 1 .. MaxCeiling
    /\ Imported

SpecCursor == InitCursor /\ [][Next]_vars

\* the genotype the materializer's snapshots annotate: kept by rule #1 for
\* one marker, by rule #2 for two markers, or twice by rule #7 (a
\* conditional genotype with two alleles of one marker)
Shapes ==
    { Genotype(1, 0, {11}), Genotype(1, 0, {11, 15}), Genotype(1, 1, {11, 13}) }

\* its annotations: one without qualifier, one with a qualifier and a term
\* that has no ID
ShapeAnnots ==
    { Annot(101, DO_GENOTYPE, 1, 301, 0), Annot(102, DO_GENOTYPE, 1, 302, 401) }

\* properties of evidence record 201: two in stanza 1, one in stanza 2 that
\* already has the source annotation term, and one that ties with the first
\* in stanza and sequence number
ShapeProperties ==
    { Property(1, 201, 601, 1, 1, "F"), Property(2, 201, 602, 1, 2, "10"),
      Property(3, 201, SOURCE_ANNOT_KEY_DO, 2, 1, "999"),
      Property(4, 201, 602, 1, 1, "20") }

InitMaterialize ==
    /\ \E genotype \in Shapes, annots \in SUBSET ShapeAnnots,
          properties \in SUBSET ShapeProperties :
          /\ annots # {}
          /\ Cardinality(properties) <= MaxProps
          /\ db = Snapshot(
                   {genotype}, annots,
                   { Evidence(100 + a._Annot_key, a._Annot_key,
                              IF a._Annot_key = 101 THEN None ELSE "MGI:1") :
                     a \in annots },
                   properties, {})
    /\ ANNOTPROPERTY = <<86>>
    /\ MAX_ANNOTATIONS = MaxCeiling
    /\ Imported

SpecMaterialize == InitMaterialize /\ [][Next]_vars

\* notes of evidence record 201: a general note, a background sensitivity
\* note and a note of a type the rollup does not read
ShapeNotes ==
    { Note(1, 201, GENERAL_NOTE, <<"a">>),
      Note(2, 201, BACKGROUND_SENSITIVITY_NOTE, <<"b", " ">>),
      Note(3, 201, 1000, <<"c">>) }

\* snapshots for repeated runs: one annotation with one evidence record and
\* up to MaxNotes notes; the ceiling puts the two markers of the rule #2
\* genotype in one batch or in two
InitRerun ==
    /\ \E genotype \in { Genotype(1, 0, {11}), Genotype(1, 0, {11, 15}) },
          notes \in SUBSET ShapeNotes :
          /\ Cardinality(notes) <= MaxNotes
          /\ db = Snapshot({genotype}, {Annot(101, DO_GENOTYPE, 1, 301, 0)},
                           {Evidence(201, 101, None)}, {}, notes)
    /\ ANNOTPROPERTY = <<86>>
    /\ MAX_ANNOTATIONS \in {1, MaxCeiling}
    /\ Imported

SpecRerun == InitRerun /\ [][NextRerun]_vars

(***************************************************************************)
(* Properties                                                              *)
(***************************************************************************)
Keepers == BagToSet(temp.genotype_keepers)

\* the rule of the cascade a genotype_type stamp belongs to
RuleOf(genotype_type) ==
    CASE genotype_type = RULE1 -> 1
      [] genotype_type = RULE2 -> 2
      [] genotype_type \in {RULE3A, RULE3B, RULE3C} -> 3
      [] genotype_type \in {RULE4, RULE5} -> 4
      [] genotype_type \in {RULE6, RULE9} -> 5
      [] genotype_type \in {RULE7, RULE8} -> 6

\* the positions of _initialize
Resolving ==
    { "_identifyExpressesComponent", "_identifyMutationInvolves",
      "_countAllelePairsPerGenotype", "_keepNaturallySimpleGenotypes",
      "_buildScratchPad", "_identifyReporterTransgenes",
      "_removeConditionalGenotypes", "_removeReporterTransgenes",
      "_identifyTransactivators", "_removeTransactivators",
      "_identifyWildTypeAlleles", "_removeWildTypeAllelesFromScratchPad",
      "_collectMarkerSets", "_handleMultipleMarkers",
      "_handleMutationInvolves", "_handleTransgenes", "_handleDockingSites",
      "_handleOtherSingles", "_removeNullsAndGtRosa", "_getMarkerMetaData",
      "_initializeKeyMaps" }

\* C1: at every point of the resolution, the genotype_keepers rows of one
\* genotype all come from one rule of the cascade (rule 1; the two-marker
\* transgene exception; mutation involves; transgene; docking site;
\* remaining singles), and no genotype kept by rule 1 has a scratchpad row.
C1_OneRulePerGenotype ==
    /\ \A k1 \in Keepers, k2 \in Keepers :
          k1._Genotype_key = k2._Genotype_key
              => RuleOf(k1.genotype_type) = RuleOf(k2.genotype_type)
    /\ \A k \in Keepers :
          k.genotype_type = RULE1
              => \A s \in temp.scratchpad :
                     s._Genotype_key # k._Genotype_key

\* resolution is over; one genotype was kept by rule 1 and another holds
\* rows stamped by both transgene rules
C1_Witness ==
    /\ INITIALIZED
    /\ \E k \in Keepers : k.genotype_type = RULE1
    /\ \E k1 \in Keepers, k2 \in Keepers :
          /\ k1._Genotype_key = k2._Genotype_key
          /\ k1.genotype_type = RULE4
          /\ k2.genotype_type = RULE5

\* the number of rows of a property list that hold the source annotation
\* term
SourceProperties(rows) ==
    Cardinality({ i \in DOMAIN rows :
                    <<rows[i]._PropertyTerm_key>> = SOURCE_ANNOT_KEY })

\* C2: (as claimed) for every row a finalized Marker has built, the
\* property rows of that evidence record and marker hold exactly one
\* property with the source annotation term.
C2_ExactlyOneProvenance ==
    (marker.kind = "Marker" /\ marker.finalized)
        => \A a \in DOMAIN marker.evidence : \A e \in marker.evidence[a] :
               /\ e._AnnotEvidence_key \in DOMAIN marker.evidenceProperties
               /\ SourceProperties(
                      marker.evidenceProperties[e._AnnotEvidence_key]) = 1

\* the last clause of a properties text
LastClause(text) == SubSeq(text, Len(text) - 2, Len(text))

RECURSIVE CountSum(_, _)
CountSum(from, to) ==
    IF from > to THEN 0
    ELSE ANNOTATION_COUNTS[KeyAt(from)] + CountSum(from + 1, to)

\* the last call of _getNextMarkerBatch returned a batch
HasBatch == batch.endIndex # NoneInt

\* C5: the counts of the keys of a batch sum to at most MAX_ANNOTATIONS,
\* unless the batch is a single key whose own count is MAX_ANNOTATIONS or
\* more.
C5_BatchUnderCeiling ==
    (INITIALIZED /\ HasBatch)
        => \/ CountSum(batch.startIndex, batch.endIndex[1]) <= MAX_ANNOTATIONS
           \/ /\ batch.startIndex = batch.endIndex[1]
              /\ ANNOTATION_COUNTS[KeyAt(batch.startIndex)] >= MAX_ANNOTATIONS

\* a second or later batch is a single key whose count is above the ceiling
C5_Witness ==
    /\ INITIALIZED
    /\ HasBatch
    /\ batch.startIndex > 0
    /\ batch.startIndex = batch.endIndex[1]
    /\ ANNOTATION_COUNTS[KeyAt(batch.startIndex)] > MAX_ANNOTATIONS

\* C6: a call that computes a batch starts it right after the previous one
\* (at index 0 the first time), records its end in LAST_MARKER_KEY_INDEX,
\* keeps its keys in MARKER_KEYS order, and ends it at the last key or where
\* the count of the next key would bring the sum to MAX_ANNOTATIONS or more.
C6_BatchIsMaximalRun ==
    [][ (pc = "fetch" /\ MARKERS_TO_DO = << >> /\ batch'.endIndex # NoneInt)
        => /\ batch'.startIndex = (IF LAST_MARKER_KEY_INDEX = NoneInt THEN 0
                                   ELSE LAST_MARKER_KEY_INDEX[1] + 1)
           /\ batch'.startIndex <= batch'.endIndex[1]
           /\ LAST_MARKER_KEY_INDEX' = batch'.endIndex
           /\ batch'.startMarker = <<KeyAt(batch'.startIndex)>>
           /\ batch'.endMarker = <<KeyAt(batch'.endIndex[1])>>
           /\ \/ batch'.endIndex[1] = Len(MARKER_KEYS) - 1
              \/ CountSum(batch'.startIndex, batch'.endIndex[1] + 1)
                     >= MAX_ANNOTATIONS ]_vars

\* the second batch runs over two keys, from index 1 to the last key
C6_Witness ==
    /\ INITIALIZED
    /\ HasBatch
    /\ batch.startIndex = 1
    /\ batch.endIndex = <<2>>
    /\ LAST_MARKER_KEY_INDEX = <<2>>

\* the marker keys of genotype_keepers rows whose genotype has a
\* qualifying annotation
TargetKeys ==
    { k._Marker_key :
      k \in { x \in Keepers :
                \E a \in QualifyingAnnots : a._Object_key = x._Genotype_key } }

\* C7: MARKER_KEYS lists, in ascending order and once each, the markers
\* that have a precomputed annotation; what getNextMarker has returned is
\* always a prefix of that list; and a call returns None exactly when the
\* whole list has been returned.
C7_EveryKeyOnceAscending ==
    /\ [](INITIALIZED =>
            /\ \A i \in DOMAIN MARKER_KEYS : \A j \in DOMAIN MARKER_KEYS :
                   i < j => MARKER_KEYS[i] < MARKER_KEYS[j]
            /\ pc # "done" => Range(MARKER_KEYS) = TargetKeys
            /\ \A i \in DOMAIN MARKER_KEYS :
                   ANNOTATION_COUNTS[MARKER_KEYS[i]] >= 1
            /\ Len(returned) <= Len(MARKER_KEYS)
            /\ \A i \in DOMAIN returned : returned[i] = MARKER_KEYS[i]
            /\ marker = NoMarker => returned = MARKER_KEYS
            /\ marker.kind = "Marker"
                   => marker.markerKey = returned[Len(returned)])
    /\ [][ (pc = "fetch" /\ pc' = "idle")
           => /\ (marker' = NoMarker) <=> (returned = MARKER_KEYS)
              /\ marker' # NoMarker
                     => returned' = Append(returned,
                                           MARKER_KEYS[Len(returned) + 1]) ]_vars

\* three markers were returned from three batches, then None
C7_Witness ==
    /\ INITIALIZED
    /\ pc = "idle"
    /\ marker = NoMarker
    /\ Len(returned) = 3
    /\ MAX_ANNOTATIONS = 1
    /\ batch.startIndex = 3

\* C8: once getNextMarker has returned None, every later call returns None
\* again, computes no batch, fetches nothing, runs no part of _initialize,
\* and leaves LAST_MARKER_KEY_INDEX, MARKERS_TO_DO, MARKER_KEYS and
\* ANNOTATION_COUNTS as they are.
C8_ExhaustedIsTerminal ==
    [][ (marker = NoMarker)
        => /\ marker' = NoMarker
           /\ pc' \notin Resolving
           /\ batch'.endIndex = NoneInt
           /\ UNCHANGED <<ANNOTATION_COUNTS, MARKER_KEYS,
                          LAST_MARKER_KEY_INDEX, MARKERS_TO_DO, INITIALIZED,
                          returned, derived>> ]_vars

\* a call is under way after None was returned at the end of a stream of
\* three markers
C8_Witness ==
    /\ marker = NoMarker
    /\ pc = "fetch"
    /\ Len(returned) = 3

\* C9: _initialize runs only in a call made before any marker was returned,
\* and once INITIALIZED is set no step runs a part of it, clears
\* INITIALIZED, changes genotype_keepers (other than addTiming dropping the
\* temp tables at the end), ANNOTATION_COUNTS or MARKER_KEYS, or moves
\* LAST_MARKER_KEY_INDEX back.
C9_ResolvedOnce ==
    /\ []((pc \in Resolving \/ ~ INITIALIZED)
            => (returned = << >> /\ marker = NotCalled))
    /\ [][ INITIALIZED
           => /\ INITIALIZED'
              /\ pc' \notin Resolving
              /\ UNCHANGED <<ANNOTATION_COUNTS, MARKER_KEYS>>
              /\ \/ temp'.genotype_keepers = temp.genotype_keepers
                 \/ temp' = NoTempTables /\ pc' = "done"
              /\ \/ LAST_MARKER_KEY_INDEX' = LAST_MARKER_KEY_INDEX
                 \/ /\ LAST_MARKER_KEY_INDEX' # NoneInt
                    /\ LAST_MARKER_KEY_INDEX # NoneInt
                           => LAST_MARKER_KEY_INDEX'[1]
                                  > LAST_MARKER_KEY_INDEX[1] ]_vars

\* a third call is under way: two markers were returned and INITIALIZED is
\* set
C9_Witness ==
    /\ INITIALIZED
    /\ pc = "fetch"
    /\ Len(returned) = 2
    /\ marker.kind = "Marker"

\* C10: (as claimed) a second run that has drained the stream over the
\* same snapshot has built the same genotype_keepers and has read the same
\* multiset of rows as the first.
C10_SameResultTwice ==
    (run = 2 /\ pc = "idle" /\ marker = NoMarker)
        => /\ temp.genotype_keepers = previous.keepers
           /\ derived = previous.derived

\* every order of the rows of a set
RECURSIVE Orders(_)
Orders(S) ==
    IF S = {} THEN { << >> }
    ELSE UNION { { <<x>> \o rest : rest \in Orders(S \ {x}) } : x \in S }

\* what _concatenateNotes makes of all the general and background
\* sensitivity notes of an evidence record, for each order of the notes
MergedNotes(evidenceKey) ==
    LET rows == { n \in db.MGI_Note :
                    /\ n._Object_key = evidenceKey
                    /\ n._NoteType_key \in
                           {GENERAL_NOTE, BACKGROUND_SENSITIVITY_NOTE} }
    IN  { _concatenateNotes([notes |-> [e \in {evidenceKey} |-> order]],
                            evidenceKey) : order \in Orders(rows) }

\* C11: (as claimed) the note field of every row read from a Marker is the
\* merged text of all the general and background sensitivity notes of its
\* evidence record (in some order of the notes), for every marker the
\* evidence record is rolled up to.
C11_MergedNoteForEveryTarget ==
    \A d \in BagToSet(derived) :
        \E E \in db.VOC_Evidence : d[9] \in MergedNotes(E._AnnotEvidence_key)

\* the property rows the store holds for an evidence record
ExistingProperties(evidenceKey) ==
    { p \in db.VOC_Evidence_Property : p._AnnotEvidence_key = evidenceKey }

\* C12: (as claimed) the source property that ends the property list of an
\* evidence record of a Marker has a sequence number one greater than the
\* largest sequence number of the properties the store holds for that
\* evidence record; for an evidence record without properties it is the
\* only row, with stanza 1 and sequence number 1.
C12_SequenceNumberIsMaxPlusOne ==
    marker.kind = "Marker"
        => \A e \in DOMAIN marker.evidenceProperties :
              LET rows == marker.evidenceProperties[e]
                  added == rows[Len(rows)]
              IN  /\ added._PropertyTerm_key = SOURCE_ANNOT_KEY[1]
                  /\ IF ExistingProperties(e) = {}
                     THEN /\ Len(rows) = 1
                          /\ added.stanza = 1
                          /\ added.sequenceNum = 1
                     ELSE added.sequenceNum =
                              Max({ p.sequenceNum :
                                    p \in ExistingProperties(e) }) + 1

\* C13: (as claimed) the count _getMarkerMetaData stored for a marker is the
\* number of annotation rows _getAnnotations hands to that marker's Marker
\* object, also when genotype_keepers holds a (genotype, marker) row twice
C13_CountEqualsMaterialized ==
    marker.kind = "Marker"
        => ANNOTATION_COUNTS[marker.markerKey]
               = Cardinality(marker.annotations)

\* the allele links of a genotype
LinksOf(genotypeKey) ==
    { p \in db.GXD_AlleleGenotype : p._Genotype_key = genotypeKey }

\* the allele links the scenario of rule 1 is about: the only link of a
\* genotype that has a qualifying annotation and is not conditional, to an
\* allele that is not wild type, has no mutation involves relationship and
\* is no inserted expressed sequence
NaturallySimpleLinks ==
    { p \in db.GXD_AlleleGenotype :
        /\ \E a \in QualifyingAnnots : a._Object_key = p._Genotype_key
        /\ LinksOf(p._Genotype_key) = {p}
        /\ \E gg \in db.GXD_Genotype :
              gg._Genotype_key = p._Genotype_key /\ gg.isConditional = 0
        /\ \E a \in db.ALL_Allele :
              a._Allele_key = p._Allele_key /\ a.isWildType = 0
        /\ ~ \E mr \in db.MGI_Relationship :
                /\ mr._Category_key = MUTATION_INVOLVES
                /\ mr._Object_key_1 = p._Allele_key
        /\ ~ HasSubtype(p._Allele_key, INSERTED_EXPRESSED_SEQUENCE) }

\* resolution is over and its tables are still there
Resolved == INITIALIZED /\ pc \notin Resolving /\ pc # "done"

\* C14: (as claimed) after resolution, genotype_keepers holds, for every
\* genotype of the rule 1 scenario, the row of the genotype and its single
\* marker stamped by rule 1
C14_OneLinkKeptByRule1 ==
    Resolved
        => \A p \in NaturallySimpleLinks :
               Keeper(p._Genotype_key, RULE1, p._Marker_key) \in Keepers

\* C14: (amended) after resolution, genotype_keepers holds, for every
\* genotype of the rule 1 scenario whose marker has a marker record and a
\* preferred MGI ID and is not Gt(ROSA)26Sor, the row of the genotype and
\* its single marker stamped by rule 1, and no other row of that genotype;
\* for a genotype of the scenario with any other marker it holds no row
C14_OneLinkKeptByRule1Amended ==
    Resolved
        => \A p \in NaturallySimpleLinks :
               LET rows == { k \in Keepers :
                               k._Genotype_key = p._Genotype_key }
               IN  IF /\ MarkerRow(p._Marker_key) # {}
                      /\ HasAccession(p._Marker_key, MGITYPE_MARKER)
                      /\ p._Marker_key # GT_ROSA
                   THEN rows = { Keeper(p._Genotype_key, RULE1,
                                        p._Marker_key) }
                   ELSE rows = {}

\* resolution is over; genotype 1 is of the rule 1 scenario and is kept by
\* rule 1 for its marker
C14_Witness ==
    /\ Resolved
    /\ \E p \in NaturallySimpleLinks :
          /\ p._Genotype_key = 1
          /\ Keeper(1, RULE1, p._Marker_key) \in Keepers

\* the marker of a link is of type transgene
OnTransgene(p) == MarkerType(p._Marker_key) = {TRANSGENE}

\* the expresses component relationships of the alleles of a marker
ExpressesEdges(markerKey) ==
    { mr \in db.MGI_Relationship :
        /\ mr._Category_key = EXPRESSES_COMPONENT
        /\ \E a \in db.ALL_Allele : /\ a._Marker_key = markerKey
                                    /\ a._Allele_key = mr._Object_key_1 }

\* the pairs of links the scenario of the two-marker transgene exception is
\* about: the two links of a genotype with a qualifying annotation and no
\* mutation involves relationship, the first on a transgene MT, the second
\* on a marker MN that is no transgene, every expresses component
\* relationship of MT being 'expresses mouse gene' of MN
TransgenePairs ==
    { x \in db.GXD_AlleleGenotype \X db.GXD_AlleleGenotype :
        /\ \E a \in QualifyingAnnots : a._Object_key = x[1]._Genotype_key
        /\ LinksOf(x[1]._Genotype_key) = {x[1], x[2]}
        /\ x[1] # x[2]
        /\ OnTransgene(x[1])
        /\ MarkerRow(x[2]._Marker_key) # {} /\ ~ OnTransgene(x[2])
        /\ ExpressesEdges(x[1]._Marker_key) # {}
        /\ \A mr \in ExpressesEdges(x[1]._Marker_key) :
              /\ mr._RelationshipTerm_key = EXPRESSES_MOUSE_GENE
              /\ mr._Object_key_2 = x[2]._Marker_key
        /\ ~ \E mr \in db.MGI_Relationship :
                /\ mr._Category_key = MUTATION_INVOLVES
                /\ mr._Object_key_1 \in {x[1]._Allele_key, x[2]._Allele_key} }

\* C15: (as claimed) after resolution, the genotype_keepers rows of every
\* genotype of the scenario of the two-marker transgene exception are the
\* two rows of rule 2, one for MT and one for MN, whatever the subtypes of
\* the transgene allele
C15_TransgenePairKeptByRule2 ==
    Resolved
        => \A x \in TransgenePairs :
               { k \in Keepers : k._Genotype_key = x[1]._Genotype_key }
                 = { Keeper(x[1]._Genotype_key, RULE2, x[1]._Marker_key),
                     Keeper(x[1]._Genotype_key, RULE2, x[2]._Marker_key) }

\* the scratchpad rows the intrinsic-phenotype clause of the docking-site
\* rule is about: the marker is Hprt or Col1a1 and the only marker of the
\* genotype, the genotype expresses no component and the allele is no
\* inserted expressed sequence
IntrinsicDockingRows ==
    { s \in temp.scratchpad :
        /\ s._Marker_key \in {HPRT, COL1A1}
        /\ HasCount(temp.trad_ct, s._Genotype_key, 1)
        /\ ~ \E e \in temp.ec : e._Genotype_key = s._Genotype_key
        /\ ~ HasSubtype(s._Allele_key, INSERTED_EXPRESSED_SEQUENCE) }

\* C16: _handleDockingSites leaves, for every genotype that reaches it with
\* Hprt or Col1a1 as its single marker, no expressed component and an
\* allele that is no inserted expressed sequence, the row of rule 9 for that
\* marker as the only genotype_keepers row of the genotype; and every row
\* of rule 9 stays in genotype_keepers through the final cleanup, for as
\* long as the table exists
C16_DockingSiteKeptByRule9 ==
    [][ /\ pc = "_handleDockingSites"
            => \A s \in IntrinsicDockingRows :
                   { k \in BagToSet(temp'.genotype_keepers) :
                       k._Genotype_key = s._Genotype_key }
                     = { Keeper(s._Genotype_key, RULE9, s._Marker_key) }
        /\ \A k \in Keepers :
               k.genotype_type = RULE9
                   => \/ k \in BagToSet(temp'.genotype_keepers)
                      \/ temp' = NoTempTables /\ pc' = "done" ]_vars

\* resolution is over, the final cleanup included, and genotype 1 is kept
\* by rule 9 for Hprt
C16_Witness ==
    /\ Resolved
    /\ Keeper(1, RULE9, HPRT) \in Keepers
    /\ \E p \in LinksOf(1) :
          /\ p._Marker_key = HPRT
          /\ ~ HasSubtype(p._Allele_key, INSERTED_EXPRESSED_SEQUENCE)

\* the two-marker transgene exception, read from the marker sets of a
\* genotype: no marker through mutation involves, a transgene MT and a
\* marker MN that is no transgene among its traditional markers, MT
\* expressing MN as a mouse gene and expressing no other marker
SatisfiesException(g) ==
    /\ ~ \E m \in temp.mi : m._Genotype_key = g
    /\ \E tt \in temp.trad, tn \in temp.trad :
          /\ tt._Genotype_key = g /\ tn._Genotype_key = g
          /\ MarkerType(tt._Marker_key) = {TRANSGENE}
          /\ MarkerRow(tn._Marker_key) # {}
          /\ MarkerType(tn._Marker_key) # {TRANSGENE}
          /\ \E mr \in ExpressesEdges(tt._Marker_key) :
                /\ mr._RelationshipTerm_key = EXPRESSES_MOUSE_GENE
                /\ mr._Object_key_2 = tn._Marker_key
          /\ \A mr \in ExpressesEdges(tt._Marker_key) :
                mr._Object_key_2 = tn._Marker_key

\* the genotypes whose links, after the strip steps, reach three or more
\* traditional markers, or two that do not satisfy the exception
Unresolvable ==
    { c._Genotype_key :
      c \in { x \in temp.trad_ct :
                \/ x.marker_count >= 3
                \/ x.marker_count = 2
                   /\ ~ SatisfiesException(x._Genotype_key) } }

\* C17: from the moment the marker sets are collected, a genotype that
\* reaches three or more traditional markers, or two that do not satisfy
\* the two-marker transgene exception, has no genotype_keepers row, no row
\* read from a Marker has one of its annotations as source, and no error
\* has been raised
C17_UnresolvableYieldsNothing ==
    \A g \in Unresolvable :
        /\ \A k \in Keepers : k._Genotype_key # g
        /\ \A d \in BagToSet(derived) : \A a \in QualifyingAnnots :
               a._Object_key = g
                   => LastClause(d[11])[3] # ToString(a._Annot_key)
        /\ raised = "None"

\* the stream is drained: rows of another genotype were read, and genotype
\* 1 reaches three traditional markers
C17_Witness ==
    /\ Resolved
    /\ marker = NoMarker
    /\ derived # EmptyBag
    /\ 1 \in Unresolvable
    /\ HasCount(temp.trad_ct, 1, 3)

(***************************************************************************)
(* The Marker class and the driver's initialize, called by any client     *)
(***************************************************************************)
\* faulty variant of checkWriteable: it never raises
checkWriteableNever(self) == FALSE

\* Marker.checkWriteable raises exactly when the marker is finalized
checkWriteable(self) == self.finalized

\* a set* method of the driver's marker: checkWriteable, then the
\* assignment. Error is a string, so "raise Error(s)" raises TypeError; the
\* caller handles the exception or the process ends
Set(field, value) ==
    /\ pc = "idle"
    /\ marker.kind = "Marker"
    /\ IF checkWriteable(marker)
       THEN /\ raised' = "TypeError"
            /\ pc' \in {"idle", "terminated"}
            /\ UNCHANGED marker
       ELSE /\ marker' = [marker EXCEPT ![field] = value]
            /\ UNCHANGED <<pc, raised>>
    /\ UNCHANGED <<db, ANNOTPROPERTY, engine, cursor, MARKERS_TO_DO, keyMaps,
                   temp, batch, returned, derived, run, previous>>

setAnnotations(annotations) == Set("annotations", annotations)

setEvidence(evidence) == Set("evidence", evidence)

setProperties(properties) == Set("evidenceProperties", properties)

setNotes(notes) == Set("notes", notes)

\* the values a client passes to a set* method: the field's value, or none
SetValues(field, empty) ==
    IF marker.kind = "Marker" THEN {marker[field], empty} ELSE {empty}

\* Marker.finalize called directly
callFinalize ==
    /\ pc = "idle"
    /\ marker.kind = "Marker"
    /\ marker' = finalize(marker)
    /\ UNCHANGED <<db, ANNOTPROPERTY, engine, cursor, MARKERS_TO_DO, keyMaps,
                   temp, pc, batch, returned, derived, raised, run, previous>>

\* how often the rows of a finalized marker have been read
Reads(self) ==
    IF self.finalAnnotations = EmptyBag THEN 0
    ELSE LET r == CHOOSE x \in BagToSet(self.finalAnnotations) : TRUE
         IN  CopiesIn(r, derived) \div CopiesIn(r, self.finalAnnotations)

\* Marker.getAnnotations on a finalized marker: finalize returns at once
\* and the rows of finalAnnotations are returned
getAnnotationsAgain ==
    /\ pc = "idle"
    /\ marker.kind = "Marker"
    /\ marker.finalized
    /\ Reads(marker) < MaxReads
    /\ marker' = finalize(marker)
    /\ derived' = derived (+) marker'.finalAnnotations
    /\ UNCHANGED <<db, ANNOTPROPERTY, engine, cursor, MARKERS_TO_DO, keyMaps,
                   temp, pc, batch, returned, raised, run, previous>>

\* the annotation type selectors of the command line that name the marker
\* rollup, and one that names nothing
Selectors == {"diseaseMarker", "mpMarker", "diseaseGene"}

\* initialize of the driver, after the output files are opened: the
\* selector is mapped to setAnnotationType, or the driver prints
\* 'Unknown annotation type' and exits with status 1
initialize(selector) ==
    IF selector = "diseaseMarker" THEN setAnnotationType(DO_GENOTYPE)
    ELSE IF selector = "mpMarker" THEN setAnnotationType(MP_GENOTYPE)
    ELSE /\ pc = "idle"
         /\ CURRENT_ANNOT_TYPE = NoneInt
         /\ marker = NotCalled
         /\ pc' = "exit(1)"
         /\ UNCHANGED <<db, ANNOTPROPERTY, engine, cursor, MARKERS_TO_DO,
                        keyMaps, temp, batch, driver, raised, run, previous>>

NextApi ==
    \/ Next
    \/ \E selector \in Selectors : initialize(selector)
    \/ \E annotations \in SetValues("annotations", {}) :
          setAnnotations(annotations)
    \/ \E evidence \in SetValues("evidence", << >>) : setEvidence(evidence)
    \/ \E properties \in SetValues("evidenceProperties", << >>) :
          setProperties(properties)
    \/ \E notes \in SetValues("notes", << >>) : setNotes(notes)
    \/ callFinalize
    \/ getAnnotationsAgain

SpecApi == InitRerun /\ [][NextApi]_vars

\* the fields the set* methods assign
MarkerFields == {"annotations", "evidence", "evidenceProperties", "notes"}

\* the empty list or dictionary of a field
EmptyValue(field) == IF field = "annotations" THEN {} ELSE << >>

\* C18: a set* call on a marker that is not finalized stores its argument,
\* raises nothing and leaves the other fields alone; on a finalized marker
\* it raises and changes nothing. A finalized marker is never changed: the
\* driver's variable keeps it as it is until it is given the next marker,
\* which is not finalized, or None. Every read of a finalized marker
\* returns the rows of finalAnnotations, the rows its first read returned.
C18_FinalizeOnce ==
    [][ /\ \A field \in MarkerFields :
              \A value \in SetValues(field, EmptyValue(field)) :
                  Set(field, value)
                      => IF marker.finalized
                         THEN marker' = marker /\ raised' = "TypeError"
                         ELSE /\ marker'[field] = value
                              /\ \A other \in DOMAIN marker \ {field} :
                                     marker'[other] = marker[other]
                              /\ raised' = raised /\ pc' = pc
        /\ (marker.kind = "Marker" /\ marker.finalized)
              => \/ marker' = marker
                 \/ marker'.kind # "Marker"
                 \/ ~ marker'.finalized
        /\ (marker'.kind = "Marker" /\ marker'.finalized
                /\ derived' # derived)
              => derived' = derived (+) marker'.finalAnnotations ]_vars

\* a finalized marker with rows has been read MaxReads times, and a set*
\* call on it has raised and was handled by the caller
C18_Witness ==
    /\ marker.kind = "Marker"
    /\ marker.finalized
    /\ marker.finalAnnotations # EmptyBag
    /\ Reads(marker) = MaxReads
    /\ raised = "TypeError"
    /\ pc = "idle"

\* C19: setAnnotationType with a type other than DO_GENOTYPE and
\* MP_GENOTYPE raises and leaves CURRENT_ANNOT_TYPE and SOURCE_ANNOT_KEY as
\* they were; the driver given an unknown selector exits with nothing
\* resolved, no marker returned and no row read; getNextMarker without an
\* annotation type raises and returns no marker; and while no annotation
\* type is set nothing is resolved, returned or read. After an uncaught
\* error or an exit nothing happens any more.
C19_ConfigurationErrorIsFatal ==
    [][ /\ \A annotType \in AnnotTypes \ {DO_GENOTYPE, MP_GENOTYPE} :
              setAnnotationType(annotType)
                  => /\ raised' # None
                     /\ pc' = "terminated"
                     /\ UNCHANGED <<CURRENT_ANNOT_TYPE, SOURCE_ANNOT_KEY>>
        /\ \A selector \in Selectors \ {"diseaseMarker", "mpMarker"} :
              initialize(selector)
                  => /\ pc' = "exit(1)"
                     /\ UNCHANGED <<CURRENT_ANNOT_TYPE, SOURCE_ANNOT_KEY>>
        /\ (getNextMarker /\ CURRENT_ANNOT_TYPE = NoneInt)
              => /\ raised' # None
                 /\ pc' = "terminated"
                 /\ UNCHANGED <<marker, returned>>
        /\ CURRENT_ANNOT_TYPE' = NoneInt
              => /\ temp' = NoTempTables
                 /\ ~ INITIALIZED'
                 /\ pc' \notin Resolving
                 /\ marker'.kind # "Marker"
                 /\ returned' = << >>
                 /\ derived' = EmptyBag
        /\ pc \in {"terminated", "exit(1)"} => UNCHANGED vars ]_vars

\* each configuration error has happened: the driver exited on an unknown
\* selector
C19_Witness ==
    /\ pc = "exit(1)"
    /\ CURRENT_ANNOT_TYPE = NoneInt
    /\ raised = None

\* getNextMarker or setAnnotationType raised with no annotation type set
C19_WitnessRaised ==
    /\ pc = "terminated"
    /\ CURRENT_ANNOT_TYPE = NoneInt
    /\ raised = "TypeError"

\* the fields of a row that Marker.finalize looks up in a KeyMap: term ID,
\* marker ID, J number, evidence code and user
LookedUp == {1, 2, 3, 4, 7}

\* C20: (as claimed) no row read from a Marker has a missing value where a
\* KeyMap was looked up: a key absent from the KeyMap would have ended the
\* run before the row was built
C20_NoRowWithMissingValue ==
    \A d \in BagToSet(derived) : \A i \in LookedUp : d[i] # None

\* the scratchpad rows the transgene clause of the mutation involves rule
\* is about: the marker of the row is a transgene and the only traditional
\* marker of the genotype, and the genotype has exactly one marker through
\* mutation involves
TransgeneClauseRows ==
    { s \in temp.scratchpad :
        /\ MarkerType(s._Marker_key) = {TRANSGENE}
        /\ HasCount(temp.trad_ct, s._Genotype_key, 1)
        /\ HasCount(temp.mi_ct, s._Genotype_key, 1) }

\* C21: (as claimed) every genotype_keepers row _handleMutationInvolves
\* leaves for a genotype of the transgene clause has the genotype's
\* mutation involves marker as its marker; none has the transgene
C21_TransgeneClauseKeepsOnlyInvolved ==
    [][ pc = "_handleMutationInvolves"
            => \A s \in TransgeneClauseRows :
                   \A k \in BagToSet(temp'.genotype_keepers) :
                       k._Genotype_key = s._Genotype_key
                           => /\ k._Marker_key # s._Marker_key
                              /\ \E m \in temp.mi :
                                    /\ m._Genotype_key = s._Genotype_key
                                    /\ m._Marker_key = k._Marker_key ]_vars

\* the genotypes of the rows of a clause table
GenotypesOf(rows) == { r._Genotype_key : r \in rows }

\* the stamps of the three clauses of the mutation involves rule
ClauseStamps == {RULE3A, RULE3B, RULE3C}

StripSteps ==
    { "_removeReporterTransgenes", "_removeConditionalGenotypes",
      "_removeTransactivators" }

\* C23: (as claimed) each of the three strip steps leaves in scratchpad
\* every row of a genotype that has an expresses component relationship
C23_ExpressesComponentExempts ==
    [][ (pc \in StripSteps)
            => \A s \in temp.scratchpad :
                   (\E h \in temp.has_expresses_component :
                        h._Genotype_key = s._Genotype_key)
                       => (s \in temp'.scratchpad) ]_vars

\* the (marker, relationship term) pairs a genotype expresses through the
\* alleles it has in the scratchpad
EdgesInScratchpad(g) ==
    { <<mr._Object_key_2, mr._RelationshipTerm_key>> :
      mr \in { r \in db.MGI_Relationship :
                 /\ r._Category_key = EXPRESSES_COMPONENT
                 /\ \E s \in temp.scratchpad :
                       /\ s._Genotype_key = g
                       /\ s._Allele_key = r._Object_key_1 } }

\* the genotype has exactly one expresses component edge, 'expresses mouse
\* gene' of the marker
SoleMouseGeneEdge(g, markerKey) ==
    EdgesInScratchpad(g) = { <<markerKey, EXPRESSES_MOUSE_GENE>> }

LaterStamps == {RULE6, RULE9, RULE7, RULE8}

\* C24: the transgene rule keeps every genotype of the scratchpad whose
\* marker is a transgene with that marker (rule #4), keeps it with another
\* marker under rule #5 exactly when its only expresses component edge is
\* 'expresses mouse gene' of that marker, and deletes it from the
\* scratchpad; no later rule stamps a row of it
C24_TransgeneRule ==
    [][ /\ pc = "_handleTransgenes"
            => \A s \in TransgeneRows(temp) :
                  /\ Keeper(s._Genotype_key, RULE4, s._Marker_key)
                        \in BagToSet(temp'.genotype_keepers)
                  /\ \A m \in { x._Marker_key : x \in db.MRK_Marker } :
                        Keeper(s._Genotype_key, RULE5, m)
                            \in BagToSet(temp'.genotype_keepers)
                        <=> SoleMouseGeneEdge(s._Genotype_key, m)
                  /\ \A r \in temp'.scratchpad :
                        r._Genotype_key # s._Genotype_key
        /\ \A k1 \in BagToSet(temp'.genotype_keepers),
              k2 \in BagToSet(temp'.genotype_keepers) :
              (k1._Genotype_key = k2._Genotype_key /\ k1.genotype_type = RULE4)
                  => k2.genotype_type \notin LaterStamps ]_vars

\* a transgene genotype kept under rules #4 and #5
C24_Witness ==
    /\ Resolved
    /\ \E k \in Keepers : k._Genotype_key = 1 /\ k.genotype_type = RULE4
    /\ \E k \in Keepers : k._Genotype_key = 1 /\ k.genotype_type = RULE5

\* the (marker, relationship term) pairs a genotype expresses through any
\* of its alleles
EdgesOfGenotype(g) ==
    { <<mr._Object_key_2, mr._RelationshipTerm_key>> :
      mr \in { r \in db.MGI_Relationship :
                 /\ r._Category_key = EXPRESSES_COMPONENT
                 /\ \E l \in db.GXD_AlleleGenotype :
                       /\ l._Genotype_key = g
                       /\ l._Allele_key = r._Object_key_1 } }

\* C25: (as claimed) the last rule keeps a genotype of the scratchpad with
\* its marker if and only if the genotype has no expresses component edge
\* at all or its only edge is 'expresses mouse gene' of that same marker
C25_RemainingSinglesIff ==
    [][ (pc = "_handleOtherSingles")
            => \A s \in temp.scratchpad :
                  (\E k \in BagToSet(temp'.genotype_keepers) :
                      /\ k._Genotype_key = s._Genotype_key
                      /\ k._Marker_key = s._Marker_key
                      /\ k.genotype_type \in {RULE7, RULE8})
                  <=> \/ EdgesOfGenotype(s._Genotype_key) = {}
                      \/ EdgesOfGenotype(s._Genotype_key)
                             = { <<s._Marker_key, EXPRESSES_MOUSE_GENE>> } ]_vars

\* the genotype has a mutation involves relationship through an allele it
\* has among the given scratchpad rows
InvolvesThrough(g, rows) ==
    \E s \in rows, r \in db.MGI_Relationship :
        /\ s._Genotype_key = g
        /\ r._Category_key = MUTATION_INVOLVES
        /\ r._Object_key_1 = s._Allele_key

SingleMarkerStamps == {RULE4, RULE5, RULE6, RULE9, RULE7, RULE8}

\* the genotypes with a marker through mutation involves that no clause of
\* rule #3 claimed
Unclaimed(t) ==
    GenotypesOf(t.mi) \ GenotypesOf(t.mi1 \cup t.mi2 \cup t.mi3)

\* C26: _handleMutationInvolves leaves in the scratchpad no genotype that
\* has a mutation involves relationship through one of its scratchpad
\* alleles; no row stamped by a later rule belongs to a genotype with a
\* marker through mutation involves; and such a genotype that no clause
\* claimed has no row in genotype_keepers
C26_MutationInvolvesLeavesNone ==
    [][ /\ (pc = "_handleMutationInvolves")
            => \A s \in temp'.scratchpad :
                  ~ InvolvesThrough(s._Genotype_key, temp.scratchpad)
        /\ \A k \in BagToSet(temp'.genotype_keepers) :
              k.genotype_type \in SingleMarkerStamps
                  => k._Genotype_key \notin GenotypesOf(temp'.mi)
        /\ (pc \in {"_handleMutationInvolves", "_handleTransgenes",
                    "_handleDockingSites", "_handleOtherSingles"})
            => \A k \in BagToSet(temp'.genotype_keepers) :
                  k._Genotype_key \notin Unclaimed(temp') ]_vars

\* a genotype with a marker through mutation involves that no clause
\* claimed, after the last rule
C26_Witness ==
    /\ Resolved
    /\ 1 \in Unclaimed(temp)
    /\ \A k \in Keepers : k._Genotype_key # 1

\* the number of stanza groups of a properties text
StanzaGroups(text) ==
    IF text = << >> THEN 0
    ELSE 1 + Cardinality({ i \in DOMAIN text : text[i] = "&===&" })

\* the stanza numbers of a list of property rows
StanzaNumbers(rows) == { rows[i].stanza : i \in DOMAIN rows }

\* C27: (as claimed) the properties text a finalized Marker builds for an
\* evidence record has as many stanza groups as its property rows, the
\* source row included, have distinct stanza numbers
C27_OneGroupPerStanza ==
    (marker.kind = "Marker" /\ marker.finalized)
        => \A e \in DOMAIN marker.evidenceProperties :
               StanzaGroups(_buildPropertiesValue(marker, e))
                   = Cardinality(StanzaNumbers(marker.evidenceProperties[e]))

\* a new process is started over the same snapshot with the other value of
\* MAX_ANNOTATIONS, after a run that drained the stream
NewRunOtherCeiling ==
    /\ pc = "idle"
    /\ marker = NoMarker
    /\ run < MaxRuns
    /\ run' = run + 1
    /\ previous' = [keepers |-> temp.genotype_keepers, derived |-> derived]
    /\ MAX_ANNOTATIONS' \in {1, MaxCeiling} \ {MAX_ANNOTATIONS}
    /\ INITIALIZED' = FALSE
    /\ ANNOTATION_COUNTS' = << >>
    /\ MARKER_KEYS' = << >>
    /\ LAST_MARKER_KEY_INDEX' = NoneInt
    /\ MARKERS_TO_DO' = << >>
    /\ TERM_MAP' = NoKeyMap /\ MARKER_MAP' = NoKeyMap /\ JNUM_MAP' = NoKeyMap
    /\ EVIDENCE_MAP' = NoKeyMap /\ QUALIFIER_MAP' = NoKeyMap
    /\ USER_MAP' = NoKeyMap /\ PROPERTY_MAP' = NoKeyMap
    /\ temp' = NoTempTables
    /\ batch' = NoBatch
    /\ marker' = NotCalled
    /\ returned' = << >>
    /\ derived' = EmptyBag
    /\ UNCHANGED <<db, ANNOTPROPERTY, CURRENT_ANNOT_TYPE, SOURCE_ANNOT_KEY,
                   pc, raised>>

NextCeiling == Next \/ NewRunOtherCeiling

SpecCeiling == InitRerun /\ [][NextCeiling]_vars

\* no evidence record has two notes the rollup reads, so the order of the
\* note rows is fixed
NoteOrderFixed ==
    \A n1 \in db.MGI_Note, n2 \in db.MGI_Note :
        (/\ n1._Object_key = n2._Object_key
         /\ {n1._NoteType_key, n2._NoteType_key}
                \subseteq {GENERAL_NOTE, BACKGROUND_SENSITIVITY_NOTE})
            => n1 = n2

\* C28: (as claimed) a run that drained the stream with another value of
\* MAX_ANNOTATIONS over the same snapshot has read the same multiset of
\* rows (checked where no query leaves the order of the rows open)
C28_SameRowsForEveryCeiling ==
    (run = 2 /\ pc = "idle" /\ marker = NoMarker /\ NoteOrderFixed)
        => derived = previous.derived

\* DEBUG of the driver
DEBUG == FALSE

\* the body of the driver's loop over marker.getAnnotations(): the file the
\* row is written to, or "skipped"
writtenTo(annot) ==
    IF annot[2] = None THEN "skipped"
    ELSE IF DEBUG = TRUE THEN "annotFile"
    ELSE IF annot[10] = "MGI" THEN "annotFile"
    ELSE "annotFile2"

\* the MGI IDs of the mouse markers
MouseMarkerIDs ==
    { a.accID : a \in { x \in db.ACC_Accession :
                          /\ x._MGIType_key = MGITYPE_MARKER
                          /\ \E m \in db.MRK_Marker :
                                /\ m._Marker_key = x._Object_key
                                /\ m._Organism_key = 1 } }

\* C29: (as claimed) the driver writes a row without marker ID to neither
\* file, a row with the MGI ID of a mouse marker to the primary file
\* (annotFile), and to the secondary file (annotFile2) only rows of markers
\* that are not mouse markers
C29_MouseRowsToPrimaryFile ==
    \A d \in BagToSet(derived) :
        /\ d[2] = None => writtenTo(d) = "skipped"
        /\ d[2] # None => writtenTo(d) \in {"annotFile", "annotFile2"}
        /\ d[2] \in MouseMarkerIDs => writtenTo(d) = "annotFile"
        /\ writtenTo(d) = "annotFile2" => d[2] \notin MouseMarkerIDs

(***************************************************************************)
(* The allele rollup (rollupallelelib): _initialize                        *)
(***************************************************************************)
RULE1_ALLELE == "rule #1 : one allele genotype"

AlleleKeeper(g, rule, a) ==
    [_Genotype_key |-> g, genotype_type |-> rule, _Allele_key |-> a]

\* a call of getNextAllele on a module that is not initialized: it runs
\* _initialize.  Without an annotation type the first query of _initialize
\* cannot be formatted ('%d' % None) and the call ends with a TypeError.
getNextAllele ==
    /\ pc = "idle"
    /\ marker = NotCalled
    /\ ~ INITIALIZED
    /\ IF CURRENT_ANNOT_TYPE = NoneInt
       THEN pc' = "terminated" /\ raised' = "TypeError"
       ELSE /\ pc' = "rollupallelelib._countAllelePairsPerGenotype"
            /\ UNCHANGED raised
    /\ UNCHANGED <<db, ANNOTPROPERTY, engine, cursor, MARKERS_TO_DO, keyMaps,
                   temp, batch, driver, run, previous>>

\* _countAllelePairsPerGenotype('GXD_AlleleGenotype')
allele_countAllelePairsPerGenotype ==
    Step("rollupallelelib._countAllelePairsPerGenotype",
         "rollupallelelib._keepNaturallySimpleGenotypes",
         [temp EXCEPT !.genotype_pair_counts =
             PairCounts({gag \in db.GXD_AlleleGenotype :
                            \E v \in QualifyingAnnots :
                                v._Object_key = gag._Genotype_key})])

\* faulty variant of OneAlleleRows: the number of allele pairs of the
\* genotype is not looked at
OneAlleleRowsOfAnyCount(t) ==
    { AlleleKeeper(p._Genotype_key, RULE1_ALLELE, p._Allele_key) :
      p \in { x \in db.GXD_AlleleGenotype :
          /\ \E g \in t.genotype_pair_counts :
                g._Genotype_key = x._Genotype_key
          /\ \E gg \in db.GXD_Genotype :
                /\ gg._Genotype_key = x._Genotype_key
                /\ gg.isConditional = 0
          /\ HasAccession(x._Genotype_key, MGITYPE_GENOTYPE)
          /\ HasAccession(x._Allele_key, MGITYPE_ALLELE) } }

\* the rows rule #1 of the allele rollup selects (select distinct)
OneAlleleRows(t) ==
    { AlleleKeeper(p._Genotype_key, RULE1_ALLELE, p._Allele_key) :
      p \in { x \in db.GXD_AlleleGenotype :
          /\ \E g \in t.genotype_pair_counts :
                /\ g.pair_count = 1
                /\ g._Genotype_key = x._Genotype_key
          /\ \E gg \in db.GXD_Genotype :
                /\ gg._Genotype_key = x._Genotype_key
                /\ gg.isConditional = 0
          /\ \E a \in db.ALL_Allele : a._Allele_key = x._Allele_key
          /\ HasAccession(x._Genotype_key, MGITYPE_GENOTYPE)
          /\ HasAccession(x._Allele_key, MGITYPE_ALLELE)
          /\ \E gag \in db.GXD_AlleleGenotype, a \in db.ALL_Allele :
                /\ gag._Genotype_key = x._Genotype_key
                /\ gag._Allele_key = a._Allele_key
                /\ a.isWildType = 0 } }

\* _buildKeepersTable, _keepNaturallySimpleGenotypes, _indexKeepersTable
allele_keepNaturallySimpleGenotypes ==
    Step("rollupallelelib._keepNaturallySimpleGenotypes",
         "rollupallelelib._buildScratchPad",
         [temp EXCEPT !.genotype_keepers =
                          EmptyBag (+) RowsOnce(OneAlleleRows(temp))])

\* the rows _buildScratchPad of the allele rollup selects into scratchpad
AlleleScratchPadRows(t) ==
    { ScratchRow(p[1], p[2]) :
      p \in { x \in db.GXD_AlleleGenotype \X db.GXD_Genotype :
          /\ \E c \in t.genotype_pair_counts :
                c._Genotype_key = x[1]._Genotype_key
          /\ ~ \E k \in BagToSet(t.genotype_keepers) :
                  k._Genotype_key = x[1]._Genotype_key
          /\ x[2]._Genotype_key = x[1]._Genotype_key
          /\ \E a \in db.ALL_Allele : a._Allele_key = x[1]._Allele_key
          /\ HasAccession(x[1]._Genotype_key, MGITYPE_GENOTYPE)
          /\ HasAccession(x[1]._Allele_key, MGITYPE_ALLELE) } }

allele_buildScratchPad ==
    Step("rollupallelelib._buildScratchPad",
         "rollupallelelib._identifyReporterTransgenes",
         _deleteScratchpad(
             [temp EXCEPT !.scratchpad = AlleleScratchPadRows(temp)]))

allele_identifyReporterTransgenes ==
    Step("rollupallelelib._identifyReporterTransgenes",
         "rollupallelelib._removeConditionalGenotypes",
         [temp EXCEPT !.reporter_transgenes = reporter_transgenes_rows])

allele_removeConditionalGenotypes ==
    Step("rollupallelelib._removeConditionalGenotypes",
         "rollupallelelib._removeReporterTransgenes",
         _deleteScratchpad([temp EXCEPT !.scratchpad =
             { p \in @ : ~ ( /\ p.isConditional = 1
                             /\ HasSubtype(p._Allele_key, RECOMBINASE)
                             /\ ~ HasSubtype(p._Allele_key,
                                             INSERTED_EXPRESSED_SEQUENCE) ) }]))

allele_removeReporterTransgenes ==
    Step("rollupallelelib._removeReporterTransgenes",
         "rollupallelelib._identifyTransactivators",
         _deleteScratchpad([temp EXCEPT !.scratchpad =
             { p \in @ : p._Allele_key \notin temp.reporter_transgenes }]))

allele_identifyTransactivators ==
    Step("rollupallelelib._identifyTransactivators",
         "rollupallelelib._removeTransactivators",
         [temp EXCEPT !.transactivators = transactivators_rows])

allele_removeTransactivators ==
    Step("rollupallelelib._removeTransactivators",
         "rollupallelelib._identifyWildTypeAlleles",
         _deleteScratchpad([temp EXCEPT !.scratchpad =
             { p \in @ : p._Allele_key \notin temp.transactivators }]))

allele_identifyWildTypeAlleles ==
    Step("rollupallelelib._identifyWildTypeAlleles",
         "rollupallelelib._removeWildTypeAllelesFromScratchPad",
         [temp EXCEPT !.wildtype_alleles =
             { p._Allele_key :
               p \in { x \in temp.scratchpad :
                         \E a \in db.ALL_Allele :
                             /\ x._Allele_key = a._Allele_key
                             /\ a.isWildType = 1 } }])

allele_removeWildTypeAllelesFromScratchPad ==
    Step("rollupallelelib._removeWildTypeAllelesFromScratchPad",
         "rollupallelelib._collectAlleleSets",
         _deleteScratchpad([temp EXCEPT !.scratchpad =
             { p \in @ : p._Allele_key \notin temp.wildtype_alleles }]))

\* select _Genotype_key, count(1) as allele_count ... group by _Genotype_key
AlleleCounts(rows) ==
    { [_Genotype_key |-> g,
       allele_count |-> Cardinality({r \in rows : r._Genotype_key = g})] :
      g \in {r._Genotype_key : r \in rows} }

\* genotype-to-allele via the traditional route
allele_trad_rows(t) ==
    { [_Genotype_key |-> s._Genotype_key, _Allele_key |-> s._Allele_key] :
      s \in { x \in t.scratchpad :
                \E a \in db.ALL_Allele : x._Allele_key = a._Allele_key } }

\* _collectAlleleSets, after which _initialize reads genotype_keepers for
\* the allele keys and key maps (not followed here) and sets INITIALIZED
allele_collectAlleleSets ==
    /\ pc = "rollupallelelib._collectAlleleSets"
    /\ temp' = [temp EXCEPT !.trad = allele_trad_rows(temp),
                            !.trad_ct = AlleleCounts(allele_trad_rows(temp))]
    /\ INITIALIZED' = TRUE
    /\ pc' = "rollupallelelib._getNextAlleleBatch"
    /\ UNCHANGED <<db, ANNOTPROPERTY, MAX_ANNOTATIONS, CURRENT_ANNOT_TYPE,
                   SOURCE_ANNOT_KEY, cursor, MARKERS_TO_DO, keyMaps, batch,
                   driver, raised, run, previous>>

allele_initialize ==
    \/ allele_countAllelePairsPerGenotype
    \/ allele_keepNaturallySimpleGenotypes
    \/ allele_buildScratchPad
    \/ allele_identifyReporterTransgenes
    \/ allele_removeConditionalGenotypes
    \/ allele_removeReporterTransgenes
    \/ allele_identifyTransactivators
    \/ allele_removeTransactivators
    \/ allele_identifyWildTypeAlleles
    \/ allele_removeWildTypeAllelesFromScratchPad
    \/ allele_collectAlleleSets

NextAllele ==
    \/ \E annotType \in AnnotTypes : setAnnotationType(annotType)
    \/ getNextAllele
    \/ allele_initialize

SpecAllele == Init /\ [][NextAllele]_vars

\* the genotype has one allele link only, is not conditional, and the
\* allele of the link is not wild type
NaturallySimpleForAllele(g) ==
    /\ Cardinality(LinksOf(g)) = 1
    /\ \E gg \in db.GXD_Genotype :
          gg._Genotype_key = g /\ gg.isConditional = 0
    /\ \A l \in LinksOf(g) : \E a \in db.ALL_Allele :
          a._Allele_key = l._Allele_key /\ a.isWildType = 0

\* C30: in the allele rollup no step other than rule #1 changes
\* genotype_keepers, every row of it is stamped by rule #1, and its
\* genotype has one allele link only, is not conditional and does not
\* have wild-type alleles only
C30_AlleleKeepersFromRule1Only ==
    [][ /\ (pc # "rollupallelelib._keepNaturallySimpleGenotypes")
            => temp'.genotype_keepers = temp.genotype_keepers
        /\ \A k \in BagToSet(temp'.genotype_keepers) :
              /\ k.genotype_type = RULE1_ALLELE
              /\ NaturallySimpleForAllele(k._Genotype_key) ]_vars

\* after _initialize of the allele rollup, a genotype with two allele links
\* that the strips reduced to one allele in scratchpad has no row in
\* genotype_keepers
C30_Witness ==
    /\ pc = "rollupallelelib._getNextAlleleBatch"
    /\ INITIALIZED
    /\ Cardinality(LinksOf(1)) = 2
    /\ Cardinality({ s \in temp.scratchpad : s._Genotype_key = 1 }) = 1
    /\ \A k \in BagToSet(temp.genotype_keepers) : k._Genotype_key # 1
    /\ \E k \in BagToSet(temp.genotype_keepers) : k._Genotype_key = 2

====
